---- MODULE Spec2Model ----
(***************************************************************************)
(* A model of sass-merge: the File Record (SassMergeFile), the path        *)
(* resolver (SassMerge), the graph loader, converter bridge, assembler and *)
(* build orchestrator (SassMergeBuilder) and the watch trigger             *)
(* (SassMergeWatcher).                                                     *)
(*                                                                         *)
(* Text is a sequence of tokens.  A token is either a piece of stylesheet  *)
(* text <<"t", path, version, syntax>> or an import directive             *)
(* <<"i", specifier, 0, "">>.  A path is a sequence of name parts:         *)
(* <<"a", "scss">> is a.scss.  Optional values are sequences of length at  *)
(* most one: <<>> is null/undefined, <<v>> is v.                           *)
(***************************************************************************)
EXTENDS Integers, Sequences, FiniteSets, TLC

\* ------------------------------------------------------------------ bounds
\* Builds started in one behaviour (each takes a fresh build marker).
MaxBuilds == 3
\* Edits of the disk made by the environment in one behaviour.
MaxEdits == 2
\* Edits of the disk in one behaviour of overlapping calls of merger.build.
MaxOverlapEdits == 1
\* Files created or removed in one behaviour of the path resolver.
MaxFsEdits == 2
\* Pieces of a text handed to one of the text passes.
MaxPieces == 3
\* Builds started, and edits of the disk made, in one behaviour of two
\* mergers that share a cache object.
MaxSharedBuilds == 4
MaxSharedEdits == 3

\* ------------------------------------------------------------- the universe
R == <<"r", "scss">>
A == <<"a", "scss">>
B == <<"b", "sass">>
C == <<"c", "css">>
D == <<"d", "css", "map">>
Paths == {R, A, B, C, D}
inputFilePath == R
Tasks == {1, 2}

Null == <<>>
Some(v) == <<v>>
IsNull(o) == o = <<>>
Val(o) == o[1]

Txt(p, v, syn) == <<"t", p, v, syn>>
Imp(s) == <<"i", s, 0, "">>
IsImp(tok) == tok[1] = "i"

\* Body(v) with v evaluated once: a recursive operator that names an
\* intermediate result several times would otherwise compute it as often.
Let(v, Body(_)) == CHOOSE r \in {Body(x) : x \in {v}} : TRUE

SeqToSet(s) == {s[i] : i \in 1..Len(s)}
Min(S) == CHOOSE m \in S : \A n \in S : m <= n

\* ----------------------------------------------------- determineFileFormat
Formats == {"css", "sass", "scss"}

\* The first name part after the base that is a known extension; "none" is
\* the null the function returns when the pattern finds nothing.
determineFileFormat(filePath) ==
  LET idx == {i \in 2..Len(filePath) : filePath[i] \in Formats}
  IN  IF idx = {} THEN "none" ELSE filePath[Min(idx)]

\* ------------------------------------------------------------ SassMergeFile
NewContent ==
  [css  |-> [original |-> Null, final |-> Null, imports |-> Some(<<>>)],
   scss |-> [original |-> Null, final |-> Null, imports |-> Null],
   sass |-> [original |-> Null, final |-> Null, imports |-> Null]]

\* A write that fills, for a plain text, the plain slots alone.
setUnprocessedContent_plainOnly(rec, format, content, buildTime) ==
  LET c == rec.content
      c2 == CASE format = "css" ->
                   [c EXCEPT !.css.original = Some(content),
                             !.css.final = Some(content)]
              [] format = "scss" ->
                   [c EXCEPT !.scss.original = Some(content),
                             !.scss.final = Null,
                             !.scss.imports = Null]
              [] format = "sass" ->
                   [c EXCEPT !.sass.original = Some(content),
                             !.sass.final = Null,
                             !.sass.imports = Null]
              [] OTHER -> c
  IN  [rec EXCEPT !.content = c2, !.buildTime = buildTime]

\* A write of an original that leaves the final text and the import list of
\* the variant as they are.
setUnprocessedContent_keeps(rec, format, content, buildTime) ==
  [rec EXCEPT !.content[format].original = Some(content), !.buildTime = buildTime]

setUnprocessedContent(rec, format, content, buildTime) ==
  LET c == rec.content
      c2 == CASE format = "css" ->
                   [c EXCEPT !.css.original = Some(content),
                             !.css.final = Some(content),
                             !.scss.original = Some(content),
                             !.scss.final = Some(content),
                             !.scss.imports = Some(<<>>)]
              [] format = "scss" ->
                   [c EXCEPT !.scss.original = Some(content),
                             !.scss.final = Null,
                             !.scss.imports = Null]
              [] format = "sass" ->
                   [c EXCEPT !.sass.original = Some(content),
                             !.sass.final = Null,
                             !.sass.imports = Null]
              [] OTHER -> c
  IN  [rec EXCEPT !.content = c2, !.buildTime = buildTime]

setFinalContent(rec, format, content, buildTime) ==
  LET c == rec.content
      c2 == CASE format = "css" ->
                   [c EXCEPT !.css.final = Some(content),
                             !.scss.final = Some(content)]
              [] format = "scss" -> [c EXCEPT !.scss.final = Some(content)]
              [] format = "sass" -> [c EXCEPT !.sass.final = Some(content)]
              [] OTHER -> c
  IN  [rec EXCEPT !.content = c2, !.buildTime = buildTime]

\* new SassMergeFile(filePath, content, buildTime); the caller has checked
\* that the format is known (the constructor throws otherwise).
SassMergeFile(filePath, content, buildTime) ==
  setUnprocessedContent(
    [path |-> filePath, originalFormat |-> determineFileFormat(filePath),
     content |-> NewContent, buildTime |-> 0],
    determineFileFormat(filePath), content, buildTime)

getUnprocessedContent(rec, format) == rec.content[format].original
getFinalContent(rec, format) == rec.content[format].final
hasFinalContent(rec, format) == ~IsNull(rec.content[format].final)
hasUnprocessedContent(rec, format) == ~IsNull(rec.content[format].original)

\* The import directives of a text, in text order, each with its span.
ParseImports(text) ==
  LET idx == {i \in 1..Len(text) : IsImp(text[i])}
      F[k \in 0..Len(text)] ==
        IF k = 0 THEN <<>>
        ELSE IF k \in idx
             THEN Append(F[k - 1],
                         [index |-> k, endIndex |-> k + 1, filePath |-> text[k][2]])
             ELSE F[k - 1]
  IN  F[Len(text)]

\* getImports(format): the cached list when there is one, the empty list
\* when there is no content, and otherwise the parsed list, which it caches.
\* Returns the record as it is afterwards and the list.
getImports(rec, format) ==
  LET slot == rec.content[format]
  IN  IF ~IsNull(slot.imports) THEN [rec |-> rec, imports |-> Val(slot.imports)]
      ELSE IF IsNull(slot.original) THEN [rec |-> rec, imports |-> <<>>]
      ELSE LET imports == ParseImports(Val(slot.original))
           IN  [rec |-> [rec EXCEPT !.content[format].imports = Some(imports)],
                imports |-> imports]

\* The heap of File Records.  A record is created by one getFile call of one
\* build, so <<path, creating build marker>> identifies it; the cache and
\* the files maps of the builds hold such identities, and several of them
\* may hold the same record.
RecIds ==
  Paths \X (1..(IF MaxSharedBuilds > MaxBuilds THEN MaxSharedBuilds ELSE MaxBuilds))
NoRecs == [id \in RecIds |-> Null]
Rec(h, id) == Val(h[id])
Put(h, id, rec) == [h EXCEPT ![id] = Some(rec)]
NoFiles == [p \in Paths |-> Null]
Keys(files) == {p \in Paths : ~IsNull(files[p])}

\* Errors.  kind names the failure; files and availablePaths are the
\* properties the code attaches (Null when it attaches none); chain is the
\* list of paths in the circular-dependency message, in message order.
Error(kind) ==
  [kind |-> kind, files |-> Null, availablePaths |-> Null, chain |-> <<>>]
Reverse(s) == [i \in 1..Len(s) |-> s[Len(s) + 1 - i]]

\* The deepest recursion of hasChanges over an acyclic import structure;
\* a deeper one repeats a record and never returns (the engine ends it with
\* RangeError: Maximum call stack size exceeded).
MaxDepth == Cardinality(Paths) + 1

\* hasChanges' test of a dependency against the file importing it: the
\* dependency was built in a later cycle.
builtLater_never(h, file, id) == FALSE

builtLater(h, file, id) == Rec(h, file).buildTime > Rec(h, id).buildTime

\* A hasChanges that answers true for every file.
hasChanges_always(h, id, format, files, fuel) == [h |-> h, r |-> "true"]

RECURSIVE hasChanges_deepFirst(_, _, _, _, _)
RECURSIVE hasChangesLoop_deepFirst(_, _, _, _, _, _, _)
\* A hasChanges that asks its dependencies before it looks at anything else.
hasChanges_deepFirst(h, id, format, files, fuel) ==
  IF fuel = 0 THEN [h |-> h, r |-> "RangeError"]
  ELSE Let(getImports(Rec(h, id), format), LAMBDA gi :
         hasChangesLoop_deepFirst(Put(h, id, gi.rec), id, format, files,
                                  gi.imports, 1, fuel))

hasChangesLoop_deepFirst(h, id, format, files, dependencies, k, fuel) ==
  IF k > Len(dependencies)
  THEN [h |-> h, r |-> IF hasFinalContent(Rec(h, id), format) THEN "false" ELSE "true"]
  ELSE LET p == dependencies[k].filePath
       IN  IF p \notin Paths \/ IsNull(files[p]) THEN [h |-> h, r |-> "TypeError"]
           ELSE Let(hasChanges_deepFirst(h, Val(files[p]), format, files, fuel - 1),
                    LAMBDA sub :
                  IF sub.r = "false"
                  THEN hasChangesLoop_deepFirst(sub.h, id, format, files,
                                                dependencies, k + 1, fuel)
                  ELSE sub)

RECURSIVE hasChanges(_, _, _, _, _)
RECURSIVE hasChangesLoop(_, _, _, _, _, _, _)

\* file.hasChanges(format, files), on the heap h; r is "true", "false",
\* "TypeError" (a dependency missing from files) or "RangeError".
hasChanges(h, id, format, files, fuel) ==
  IF fuel = 0 THEN [h |-> h, r |-> "RangeError"]
  ELSE Let(getImports(Rec(h, id), format), LAMBDA gi :
         IF ~hasFinalContent(gi.rec, format)
         THEN [h |-> Put(h, id, gi.rec), r |-> "true"]
         ELSE Let(Put(h, id, gi.rec), LAMBDA h1 :
                hasChangesLoop(h1, id, format, files, gi.imports, 1, fuel)))

hasChangesLoop(h, id, format, files, dependencies, k, fuel) ==
  IF k > Len(dependencies) THEN [h |-> h, r |-> "false"]
  ELSE LET p == dependencies[k].filePath
       IN  IF p \notin Paths \/ IsNull(files[p]) THEN [h |-> h, r |-> "TypeError"]
           ELSE LET file == Val(files[p])
                IN  IF builtLater(h, file, id)
                    THEN [h |-> h, r |-> "true"]
                    ELSE IF ~hasFinalContent(Rec(h, file), format)
                    THEN [h |-> h, r |-> "true"]
                    ELSE Let(hasChanges(h, file, format, files, fuel - 1), LAMBDA sub :
                           IF sub.r = "false"
                           THEN hasChangesLoop(sub.h, id, format, files,
                                               dependencies, k + 1, fuel)
                           ELSE sub)

\* ------------------------------------------------------------ buildFinalFile
\* The state threaded through the assembly: the heap and (kept for the
\* properties) the set of paths whose final content this assembly has written.
Failed(st, e) == [h |-> st.h, built |-> st.built, out |-> Null, err |-> Some(e)]
Done(st, text) == [h |-> st.h, built |-> st.built, out |-> Some(text), err |-> Null]

\* The paths listed by the circular-dependency message, in message order:
\* importPath.concat(inputFile.path).reverse().
circularChain_unreversed(importPath, path) == Append(importPath, path)

circularChain(importPath, path) == Reverse(Append(importPath, path))

RECURSIVE buildFinalFile(_, _, _, _, _, _)
RECURSIVE spliceImports(_, _, _, _, _, _, _, _, _)

buildFinalFile(st, format, id, files, buildTime, importPath) ==
  LET path == Rec(st.h, id).path
  IN  IF path \in SeqToSet(importPath)
      THEN Failed(st, [Error("Circular") EXCEPT
                         !.chain = circularChain(importPath, path)])
      ELSE
        Let(getImports(Rec(st.h, id), format), LAMBDA gi :
        Let(hasChanges(Put(st.h, id, gi.rec), id, format, files, MaxDepth), LAMBDA hc :
        Let([st EXCEPT !.h = hc.h], LAMBDA st1 :
          CASE hc.r = "false" -> Done(st1, Val(getFinalContent(Rec(hc.h, id), format)))
            [] hc.r \in {"TypeError", "RangeError"} -> Failed(st1, Error(hc.r))
            [] OTHER ->
                 IF IsNull(getUnprocessedContent(Rec(hc.h, id), format))
                 THEN Failed(st1, Error("TypeError"))
                 ELSE
                   Let(spliceImports(st1,
                         Val(getUnprocessedContent(Rec(hc.h, id), format)),
                         gi.imports, Len(gi.imports), format, id, files,
                         buildTime, importPath), LAMBDA sp :
                     IF ~IsNull(sp.err) THEN sp
                     ELSE [h |-> Put(sp.h, id,
                                     setFinalContent(Rec(sp.h, id), format,
                                                     Val(sp.out), buildTime)),
                           built |-> sp.built \cup {path},
                           out |-> sp.out, err |-> Null]))))

\* The loop over the imports, from the last to the first.
spliceImports(st, content, imports, i, format, id, files, buildTime, importPath) ==
  IF i = 0 THEN Done(st, content)
  ELSE LET partial == imports[i]
       IN  IF partial.filePath \notin Paths \/ IsNull(files[partial.filePath])
           THEN Failed(st, Error("CantFind"))
           ELSE
             Let(buildFinalFile(st, format, Val(files[partial.filePath]),
                                files, buildTime,
                                Append(importPath, Rec(st.h, id).path)), LAMBDA sub :
               IF ~IsNull(sub.err) THEN sub
               ELSE Let(SubSeq(content, 1, partial.index - 1) \o Val(sub.out)
                          \o SubSeq(content, partial.endIndex, Len(content)),
                        LAMBDA spliced :
                      spliceImports([h |-> sub.h, built |-> sub.built], spliced,
                                    imports, i - 1, format, id, files, buildTime,
                                    importPath)))

\* ------------------------------------------------------------------ options
\* options.extensions and options.globalDirectories of the modelled merger:
\* the empty extension and .scss, and no library directory.
Extensions == <<"", "scss">>
cacheFilePaths == TRUE

\* ----------------------------------------------------------- SassMerge paths
\* fs.existsSync on the disk d (a map from each path to its text, or Null).
existsSync(d, filePath) == filePath \in Paths /\ ~IsNull(d[filePath])

\* The candidates of a specifier, in search order (one directory holds every
\* file, and no library directory is configured).
_getAvailableFilePaths(filePath) ==
  [i \in 1..Len(Extensions) |->
     IF Extensions[i] = "" THEN filePath ELSE Append(filePath, Extensions[i])]

_resolveFilePath(d, filePath) ==
  LET fileNames == _getAvailableFilePaths(filePath)
      hits == {i \in 1..Len(fileNames) : existsSync(d, fileNames[i])}
  IN  IF hits = {} THEN Null ELSE Some(fileNames[Min(hits)])

\* A resolver that also remembers that it found nothing (the entry <<>>).
resolveFilePath_memoizesNull(d, pc, filePath) ==
  IF ~cacheFilePaths THEN [pc |-> pc, path |-> _resolveFilePath(d, filePath)]
  ELSE IF pc[filePath] = Some(<<>>) THEN [pc |-> pc, path |-> Null]
  ELSE IF IsNull(pc[filePath])
       THEN [pc |-> [pc EXCEPT ![filePath] =
                       IF IsNull(_resolveFilePath(d, filePath)) THEN Some(<<>>)
                       ELSE _resolveFilePath(d, filePath)],
             path |-> _resolveFilePath(d, filePath)]
       ELSE [pc |-> pc, path |-> pc[filePath]]

\* resolveFilePath: pc is the merger's cache of resolved paths, a map from
\* specifiers to paths (Null: no entry, or an entry holding null).
resolveFilePath(d, pc, filePath) ==
  IF ~cacheFilePaths THEN [pc |-> pc, path |-> _resolveFilePath(d, filePath)]
  ELSE IF IsNull(pc[filePath])
       THEN [pc |-> [pc EXCEPT ![filePath] = _resolveFilePath(d, filePath)],
             path |-> _resolveFilePath(d, filePath)]
       ELSE [pc |-> pc, path |-> pc[filePath]]

\* ------------------------------------------- SassMerge paths, every option
\* The resolver with its extensions, global prefixes and global directories.
\* A name is a sequence of pieces of text and joining is concatenation:
\* <<"~", "foo">> is ~foo, <<"libs/", "foo", ".scss">> is libs/foo.scss.
RExtensions == << <<>>, <<".scss">> >>
RPrefixes == << <<>>, <<"~">> >>
RDirectories == << <<"libs/">>, <<"vendor/">> >>
RSpecifiers == {<<"foo">>, <<"~", "foo">>, <<"/abs/", "foo">>}
RCwds == {<<"src/">>, <<"src/", "sub/">>}

isAbsolute(fileName) == fileName # <<>> /\ fileName[1] = "/abs/"
startsWith(filePath, prefix) ==
  Len(prefix) <= Len(filePath) /\ SubSeq(filePath, 1, Len(prefix)) = prefix
substr(fileName, n) == SubSeq(fileName, n + 1, Len(fileName))

\* extensions.map(extension => filePath + extension)
fileNamesOf(filePath) == [i \in 1..Len(RExtensions) |-> filePath \o RExtensions[i]]

\* The local candidate for one file name.
localName(fileName, cwd) == IF isAbsolute(fileName) THEN fileName ELSE cwd \o fileName

RECURSIVE Flatten(_)
Flatten(ss) == IF ss = <<>> THEN <<>> ELSE Head(ss) \o Flatten(Tail(ss))

\* _getAvailableFilePaths(filePath, cwd): the local candidates, then for
\* each prefix the specifier starts with, for each global directory, the
\* file names without the prefix joined to the directory.
getAvailableFilePathsIn(filePath, cwd) ==
  LET fileNames == fileNamesOf(filePath)
      locals == [i \in 1..Len(fileNames) |-> localName(fileNames[i], cwd)]
      ofPrefix(prefix) ==
        IF ~startsWith(filePath, prefix) THEN <<>>
        ELSE Flatten([d \in 1..Len(RDirectories) |->
               [i \in 1..Len(fileNames) |->
                  RDirectories[d] \o substr(fileNames[i], Len(prefix))]])
  IN  locals \o Flatten([k \in 1..Len(RPrefixes) |-> ofPrefix(RPrefixes[k])])

RECURSIVE scanNames(_, _, _, _)
\* One for-loop over names from position k: returns at the first name that
\* exists; tested are the calls of fs.existsSync made so far.
scanNames(fs, names, k, tested) ==
  IF k > Len(names) THEN [path |-> Null, tested |-> tested]
  ELSE IF names[k] \in fs
       THEN [path |-> Some(names[k]), tested |-> Append(tested, names[k])]
       ELSE scanNames(fs, names, k + 1, Append(tested, names[k]))

RECURSIVE scanGlobal(_, _, _, _, _)
\* The loops over the prefixes (from k) and the directories (from d).
scanGlobal(fs, filePath, k, d, tested) ==
  IF k > Len(RPrefixes) THEN [path |-> Null, tested |-> tested]
  ELSE IF ~startsWith(filePath, RPrefixes[k]) \/ d > Len(RDirectories)
       THEN scanGlobal(fs, filePath, k + 1, 1, tested)
       ELSE LET globalFileNames ==
                  [i \in 1..Len(RExtensions) |->
                     RDirectories[d] \o substr(fileNamesOf(filePath)[i],
                                               Len(RPrefixes[k]))]
            IN  Let(scanNames(fs, globalFileNames, 1, tested), LAMBDA r :
                  IF ~IsNull(r.path) THEN r
                  ELSE scanGlobal(fs, filePath, k, d + 1, r.tested))

\* A search that looks into the global directories first.
resolveFilePathIn_globalFirst(fs, filePath, cwd) ==
  Let(scanGlobal(fs, filePath, 1, 1, <<>>), LAMBDA r :
    IF ~IsNull(r.path) THEN r
    ELSE scanNames(fs, [i \in 1..Len(RExtensions) |->
                          localName(fileNamesOf(filePath)[i], cwd)], 1, r.tested))

\* _resolveFilePath(filePath, cwd) on the set fs of the files that exist.
resolveFilePathIn(fs, filePath, cwd) ==
  Let(scanNames(fs, [i \in 1..Len(RExtensions) |->
                       localName(fileNamesOf(filePath)[i], cwd)], 1, <<>>),
      LAMBDA r :
    IF ~IsNull(r.path) THEN r ELSE scanGlobal(fs, filePath, 1, 1, r.tested))

\* A lookup that searches the disk on every call.
resolveFilePathCached_searches(caching, fs, ch, filePath, cwd) ==
  Let(resolveFilePathIn(fs, filePath, cwd), LAMBDA r :
    [cache |-> IF caching THEN [ch EXCEPT ![<<filePath, cwd>>] = r.path] ELSE ch,
     path |-> r.path, tested |-> r.tested])

\* A cached lookup that tests whether the stored path still exists.
resolveFilePathCached_revalidates(caching, fs, ch, filePath, cwd) ==
  IF caching /\ ~IsNull(ch[<<filePath, cwd>>]) /\ Val(ch[<<filePath, cwd>>]) \in fs
  THEN [cache |-> ch, path |-> ch[<<filePath, cwd>>], tested |-> <<>>]
  ELSE Let(resolveFilePathIn(fs, filePath, cwd), LAMBDA r :
         [cache |-> IF caching THEN [ch EXCEPT ![<<filePath, cwd>>] = r.path] ELSE ch,
          path |-> r.path, tested |-> r.tested])

\* resolveFilePath(filePath, fromFilePath), cwd the directory of
\* fromFilePath and ch the merger's cache, keyed by specifier and cwd.
resolveFilePathCached(caching, fs, ch, filePath, cwd) ==
  IF ~caching
  THEN Let(resolveFilePathIn(fs, filePath, cwd), LAMBDA r :
         [cache |-> ch, path |-> r.path, tested |-> r.tested])
  ELSE IF IsNull(ch[<<filePath, cwd>>])
       THEN Let(resolveFilePathIn(fs, filePath, cwd), LAMBDA r :
              [cache |-> [ch EXCEPT ![<<filePath, cwd>>] = r.path],
               path |-> r.path, tested |-> r.tested])
       ELSE [cache |-> ch, path |-> ch[<<filePath, cwd>>], tested |-> <<>>]

\* ----------------------------------------------------------------- readFile
RECURSIVE resolveImports(_, _, _, _)
\* Rewrites the import directives of content from position k on to hold the
\* resolved paths; throws at the first specifier nothing resolves.
resolveImports(d, pc, content, k) ==
  IF k > Len(content) THEN [pc |-> pc, content |-> content, err |-> Null]
  ELSE IF ~IsImp(content[k]) THEN resolveImports(d, pc, content, k + 1)
  ELSE Let(resolveFilePath(d, pc, content[k][2]), LAMBDA r :
         IF IsNull(r.path)
         THEN [pc |-> r.pc, content |-> content,
               err |-> Some([Error("Unresolved") EXCEPT
                        !.availablePaths =
                           Some(_getAvailableFilePaths(content[k][2]))])]
         ELSE Let([content EXCEPT ![k] = Imp(Val(r.path))], LAMBDA rewritten :
                resolveImports(d, r.pc, rewritten, k + 1)))

readFile(d, pc, filePath) ==
  IF ~existsSync(d, filePath)
  THEN [pc |-> pc, content |-> <<>>, err |-> Some(Error("Read"))]
  ELSE resolveImports(d, pc, Val(d[filePath]), 1)

\* ------------------------------------------------------------------ getFile
\* Whether getFile keeps the cached record of filePath: there is one and its
\* native original is the content just read.
keepsCached_any(h, cach, filePath, content) == ~IsNull(cach[filePath])

keepsCached(h, cach, filePath, content) ==
  /\ ~IsNull(cach[filePath])
  /\ getUnprocessedContent(Rec(h, Val(cach[filePath])),
                           Rec(h, Val(cach[filePath])).originalFormat)
       = Some(content)

\* The loader's state: the heap, the cache object, the resolved-path cache,
\* and the loop's own variables; visited and created are the paths read and
\* the paths given a new record by this load, reads the calls of readFile
\* in the order they were made.

getFile(d, st, filePath, buildTime) ==
  Let(readFile(d, st.pc, filePath), LAMBDA rf :
    LET st1 == [st EXCEPT !.pc = rf.pc, !.reads = Append(@, filePath)]
        id == <<filePath, buildTime>>
    IN  IF ~IsNull(rf.err)
        THEN [st1 EXCEPT !.err = rf.err,
                         !.visited = IF Val(rf.err).kind = "Read" THEN @
                                     ELSE @ \cup {filePath}]
        ELSE IF keepsCached(st.h, st.cache, filePath, rf.content)
        THEN [st1 EXCEPT !.visited = @ \cup {filePath}]
        ELSE IF determineFileFormat(filePath) = "none"
        THEN [st1 EXCEPT !.visited = @ \cup {filePath},
                         !.err = Some(Error("UnknownSyntax"))]
        ELSE [st1 EXCEPT !.visited = @ \cup {filePath},
                         !.created = @ \cup {filePath},
                         !.h = Put(@, id, SassMergeFile(filePath, rf.content, buildTime)),
                         !.cache[filePath] = Some(id)])

\* -------------------------------------------------------------- loadAllFiles
RECURSIVE enqueue(_, _, _, _)
\* The loop over localImports: queue each path not yet initiated.
enqueue(queue, initiated, localImports, i) ==
  IF i > Len(localImports) THEN [queue |-> queue, initiated |-> initiated]
  ELSE IF localImports[i].filePath \in initiated
       THEN enqueue(queue, initiated, localImports, i + 1)
       ELSE enqueue(Append(queue, localImports[i].filePath),
                    initiated \cup {localImports[i].filePath}, localImports, i + 1)

RECURSIVE loadLoop(_, _, _)
loadLoop(d, st, buildTime) ==
  IF st.queue = <<>> THEN st
  ELSE Let(getFile(d, [st EXCEPT !.queue = Tail(@)], Head(st.queue), buildTime),
           LAMBDA g :
         IF ~IsNull(g.err) THEN g
         ELSE LET filePath == Head(st.queue)
                  id == Val(g.cache[filePath])
              IN  Let(getImports(Rec(g.h, id), determineFileFormat(filePath)),
                      LAMBDA gi :
                  Let(enqueue(g.queue, g.initiated, gi.imports, 1), LAMBDA q :
                  Let([g EXCEPT !.h = Put(@, id, gi.rec),
                                !.files[filePath] = Some(id),
                                !.queue = q.queue,
                                !.initiated = q.initiated], LAMBDA next :
                    loadLoop(d, next, buildTime)))))

\* A loader that starts with no path marked as initiated.
initiatedAtStart_none(root) == {}

\* The paths marked as initiated before the loop starts.
initiatedAtStart(root) == {root}

loadAllFiles(d, h, cach, pc, buildTime) ==
  Let(resolveFilePath(d, pc, inputFilePath), LAMBDA r :
    IF IsNull(r.path)
    THEN [h |-> h, cache |-> cach, pc |-> r.pc, files |-> NoFiles, queue |-> <<>>,
          initiated |-> {}, visited |-> {}, created |-> {}, reads |-> <<>>,
          err |-> Some(Error("TypeError"))]
    ELSE Let([h |-> h, cache |-> cach, pc |-> r.pc, files |-> NoFiles,
              queue |-> <<Val(r.path)>>, initiated |-> initiatedAtStart(Val(r.path)),
              visited |-> {}, created |-> {}, reads |-> <<>>, err |-> Null],
             LAMBDA st : loadLoop(d, st, buildTime)))

\* ------------------------------------------------------ prepareFilesToFormat
\* Every file of the build is sent to the converter.
convertable_all(h, files, format) == Keys(files)

\* The files the converter is asked to convert.
convertable(h, files, format) ==
  {p \in Keys(files) : ~hasUnprocessedContent(Rec(h, Val(files[p])), format)}

\* The external converter on one file's text: the same text in the syntax
\* asked for; an import directive stays an import directive.
convertFile(content, toFormat) ==
  [i \in 1..Len(content) |->
     IF IsImp(content[i]) THEN content[i]
     ELSE Txt(content[i][2], content[i][3], toFormat)]

\* A converter whose result is stored nowhere.
storeConverted_none(h, files, sent, format, buildTime) == h

\* The loop over the parts of the converter's result: each part is stored in
\* the record the files map holds for its path.
storeConverted(h, files, sent, format, buildTime) ==
  [id \in RecIds |->
     IF \E p \in sent : files[p] = Some(id)
     THEN Some(setUnprocessedContent(
                 Rec(h, id), format,
                 convertFile(Val(getUnprocessedContent(Rec(h, id),
                                   Rec(h, id).originalFormat)), format),
                 buildTime))
     ELSE h[id]]


\* ---------------------------------------- removeRedundantFunctionsAndMixins
\* A nested-syntax text as the pass sees it: a sequence of pieces, each a
\* top-level declaration <<"d", prelude, name, body>> matched by the pattern
\* of createDeclarationRegExp (its code is the whole piece) or other text.
Declarations ==
  {<<"d", prelude, name, body>> :
     prelude \in {"mixin", "function"}, name \in {"m", "n"}, body \in {1, 2}}
OtherText == <<"o", "", "", 0>>
IsDeclaration(piece) == piece[1] = "d"

RECURSIVE BoundedSeq(_, _)
\* The sequences over S of length at most n.
BoundedSeq(S, n) ==
  IF n = 0 THEN {<<>>}
  ELSE BoundedSeq(S, n - 1)
         \cup {Append(q, x) : q \in {r \in BoundedSeq(S, n - 1) : Len(r) = n - 1},
                              x \in S}

NoDeclarations == [name \in {"m", "n"} |-> Null]

RECURSIVE replaceDeclarations_anyEarlier(_, _, _, _)
\* A replace callback that remembers every code seen under a name.
replaceDeclarations_anyEarlier(content, k, functions, mixins) ==
  IF k > Len(content) THEN <<>>
  ELSE IF ~IsDeclaration(content[k])
  THEN <<content[k]>> \o replaceDeclarations_anyEarlier(content, k + 1, functions, mixins)
  ELSE LET code == content[k]
           name == code[3]
           seen == IF code[2] = "mixin" THEN mixins[name] ELSE functions[name]
           all == IF IsNull(seen) THEN {code} ELSE Val(seen) \cup {code}
           f2 == IF code[2] = "mixin" THEN functions
                 ELSE [functions EXCEPT ![name] = Some(all)]
           m2 == IF code[2] = "mixin" THEN [mixins EXCEPT ![name] = Some(all)]
                 ELSE mixins
       IN  (IF ~IsNull(seen) /\ code \in Val(seen) THEN <<>> ELSE <<code>>)
             \o replaceDeclarations_anyEarlier(content, k + 1, f2, m2)

RECURSIVE replaceDeclarations(_, _, _, _)
\* content.replace(regex, callback) from piece k on: functions and mixins
\* are the callback's containers, name -> the code last stored under it.
replaceDeclarations(content, k, functions, mixins) ==
  IF k > Len(content) THEN <<>>
  ELSE IF ~IsDeclaration(content[k])
  THEN <<content[k]>> \o replaceDeclarations(content, k + 1, functions, mixins)
  ELSE LET code == content[k]
           name == code[3]
           container == IF code[2] = "mixin" THEN mixins ELSE functions
       IN  IF container[name] = Some(code)
           THEN replaceDeclarations(content, k + 1, functions, mixins)
           ELSE <<code>> \o
                IF code[2] = "mixin"
                THEN replaceDeclarations(content, k + 1, functions,
                                         [mixins EXCEPT ![name] = Some(code)])
                ELSE replaceDeclarations(content, k + 1,
                                         [functions EXCEPT ![name] = Some(code)],
                                         mixins)

removeRedundantFunctionsAndMixins(content, format) ==
  IF format = "scss"
  THEN replaceDeclarations(content, 1, NoDeclarations, NoDeclarations)
  ELSE content

\* --------------------------------------------------- removeRedundantVariables
\* A text as the pattern of the pass reads it, a sequence of tokens: $name:
\* is <<"$", name>>, a value <<"v", value>>, the flag !default <<"!", "">>,
\* a semicolon <<";", "">>, a closing brace <<"}", "">>, and any other text
\* without a semicolon <<"o", "">>.  White space is not a token.
VarNames == {"a", "b"}
Terminators == {";", "}", ""}
Terminated(t) == IF t = "" THEN <<>> ELSE << <<t, "">> >>
DefaultAssignment(name, value, t) ==
  << <<"$", name>>, <<"v", value>>, <<"!", "">> >> \o Terminated(t)
PlainAssignment(name, value, t) == << <<"$", name>>, <<"v", value>> >> \o Terminated(t)

\* The statements a text is made of.
Statements ==
  {[kind |-> "default", name |-> n, tokens |-> DefaultAssignment(n, v, t), end |-> t] :
     n \in VarNames, v \in {"1", "2"}, t \in Terminators}
    \cup {[kind |-> "plain", name |-> n, tokens |-> PlainAssignment(n, "1", t),
           end |-> t] : n \in VarNames, t \in Terminators}
    \cup {[kind |-> "other", name |-> "", tokens |-> << <<"o", "">> >>, end |-> ""]}

TokensOf(statements) ==
  Flatten([i \in 1..Len(statements) |-> statements[i].tokens])

\* The end of the match of the pattern that starts at token i, or 0 when
\* there is none: $name:, a value of at least one token and no semicolon,
\* as short as can be, !default, and then a semicolon, a closing brace or
\* the end of the text, which the match takes in.
matchEnd(content, i) ==
  IF content[i][1] # "$" THEN 0
  ELSE LET flags == {j \in (i + 2)..Len(content) :
                       /\ content[j][1] = "!"
                       /\ \A k \in (i + 1)..(j - 1) : content[k][1] # ";"
                       /\ j = Len(content) \/ content[j + 1][1] \in {";", "}"}}
       IN  IF flags = {} THEN 0
           ELSE IF Min(flags) = Len(content) THEN Min(flags) ELSE Min(flags) + 1

RECURSIVE replaceDefaults(_, _, _)
\* content.replace(regex, callback) from token i on; matches holds the names
\* the callback has seen.
replaceDefaults(content, i, matches) ==
  IF i > Len(content) THEN <<>>
  ELSE Let(matchEnd(content, i), LAMBDA e :
         IF e = 0
         THEN <<content[i]>> \o replaceDefaults(content, i + 1, matches)
         ELSE (IF content[i][2] \in matches THEN <<>> ELSE SubSeq(content, i, e))
                \o replaceDefaults(content, e + 1, matches \cup {content[i][2]}))

removeRedundantVariables(content, format) == replaceDefaults(content, 1, {})

\* ------------------------------------- getImports and the splice, by character
\* A text as the patterns of getImports read it, a sequence of units of one
\* character each: "\n", " ", ";", "}", "@", any other character "x", and
\* (counted as one character) the rest of an import directive, "import b"
\* or "import c", which is import, white space and the quoted path.
SpliceTargets == {"b", "c"}
ImportRest(t) == IF t = "b" THEN "import b" ELSE "import c"
TargetOfRest(u) == IF u = "import b" THEN "b" ELSE "c"
IsRest(u) == u \in {"import b", "import c"}
\* The final text of an import target: two lines.
FinalOf(t) == IF t = "b" THEN <<"b1", "\n", "b2">> ELSE <<"c1", "\n", "c2">>

\* The pieces a text in the given format is made of: a character of other
\* text, or an import directive with what leads to it on its line and the
\* character that ends it.
SplicePieces(format) ==
  {[kind |-> "import", lead |-> lead, target |-> t, end |-> e,
    tokens |-> lead \o <<"@", ImportRest(t), e>>] :
     lead \in {<<>>, <<"\n">>, <<"\n", " ">>}, t \in SpliceTargets,
     e \in IF format = "scss" THEN {";", "}"} ELSE {"\n"}}
    \cup {[kind |-> "other", lead |-> <<>>, target |-> "", end |-> "",
           tokens |-> <<"x">>]}

\* The number of units from position s on that are among the given ones.
RECURSIVE RunLength(_, _, _)
RunLength(content, s, units) ==
  IF s > Len(content) \/ content[s] \notin units THEN 0
  ELSE 1 + RunLength(content, s + 1, units)

\* The end of the match, given that "@import path" ends before position e:
\* the white space after it as far as the pattern's last group allows, and
\* that group; 0 when the pattern does not match.
trailingEnd(content, e, format) ==
  LET w == RunLength(content, e, {" ", "\n"})
  IN  IF e + w > Len(content) THEN e + w
      ELSE IF format = "scss"
      THEN IF content[e + w] \in {";", "}"} THEN e + w + 1 ELSE 0
      ELSE LET breaks == {k \in e..(e + w - 1) : content[k] = "\n"}
           IN  IF breaks = {} THEN 0
               ELSE (CHOOSE k \in breaks : \A j \in breaks : j <= k) + 1

\* The match of the import pattern of the format that starts at position s
\* (positions count from 1), as getImports records it, or Null.  g1 and g2
\* are the lengths of the pattern's first two groups: nothing in the scss
\* pattern; in the other, ((^|\n)[\t\r ]*), the second inside the first.
matchImport(content, s, format) ==
  LET g2 == IF format = "scss" THEN 0
            ELSE IF (s = 1 \/ content[s - 1] = "\n")
                     /\ LET k == RunLength(content, s, {" "})
                        IN  s + k + 1 <= Len(content) /\ content[s + k] = "@"
                              /\ IsRest(content[s + k + 1])
            THEN 0
            ELSE 1
      lineBreakOk == g2 = 0 \/ content[s] = "\n"
      spaces == IF format = "scss" THEN 0
                ELSE RunLength(content, s + g2, {" "})
      g1 == g2 + spaces
      at == s + g1
  IN  IF ~lineBreakOk \/ at + 1 > Len(content) \/ content[at] # "@"
         \/ ~IsRest(content[at + 1])
      THEN Null
      ELSE Let(trailingEnd(content, at + 2, format), LAMBDA e :
             IF e = 0 THEN Null
             ELSE Some([index |-> s + g1 + g2, endIndex |-> e,
                        indentation |-> SubSeq(content, s + g2, s + g1 - 1),
                        filePath |-> TargetOfRest(content[at + 1])]))

RECURSIVE getImportsFrom(_, _, _)
\* The loop of regex.exec in getImports, from position s on.
getImportsFrom(content, s, format) ==
  IF s > Len(content) THEN <<>>
  ELSE Let(matchImport(content, s, format), LAMBDA m :
         IF IsNull(m) THEN getImportsFrom(content, s + 1, format)
         ELSE <<Val(m)>> \o getImportsFrom(content, Val(m).endIndex, format))

\* partialContent.replace(/\n(?:[\t\r ]*\n)*/g, '\n' + indentation) + '\n',
\* or partialContent + '\n' when there is no indentation.
RECURSIVE indentedContent(_, _)
indentedContent(partialContent, indentation) ==
  IF partialContent = <<>> THEN <<"\n">>
  ELSE IF Head(partialContent) = "\n" /\ indentation # <<>>
  THEN <<"\n">> \o indentation \o indentedContent(Tail(partialContent), indentation)
  ELSE <<Head(partialContent)>> \o indentedContent(Tail(partialContent), indentation)

RECURSIVE replaceImports(_, _, _)
\* The loop of buildFinalFile over the imports, from the last to the first.
replaceImports(content, imports, i) ==
  IF i = 0 THEN content
  ELSE replaceImports(
         SubSeq(content, 1, imports[i].index - 1)
           \o indentedContent(FinalOf(imports[i].filePath), imports[i].indentation)
           \o SubSeq(content, imports[i].endIndex, Len(content)),
         imports, i - 1)

\* ----------------------------------- prepareFilesToFormat, by character
\* The bundle sent to the converter and its result, as the pattern built from
\* the header reads them: a sequence of units of one character each, "\n"
\* and any other character "x", and (counted as single units) the comment
\* that opens the part of a path, "B:" and the path, and the comment "E"
\* that closes a part.
BatchOrder == <<"e", "f", "g">>
BatchPaths == {BatchOrder[k] : k \in 1..Len(BatchOrder)}
BatchTexts == {<<>>, <<"x">>, <<"\n">>, <<"x", "\n", "x">>}
Begin(path) == CASE path = "e" -> "B:e" [] path = "f" -> "B:f" [] OTHER -> "B:g"
IsBegin(u) == u \in {"B:e", "B:f", "B:g"}
PathOfBegin(u) == CASE u = "B:e" -> "e" [] u = "B:f" -> "f" [] OTHER -> "g"

\* requiredFiles.map(...).join(''): the parts of the selected files in the
\* order of the files map.  texts gives the native text of each selected path.
bundledContent(texts) ==
  Flatten([k \in 1..Len(BatchOrder) |->
    IF BatchOrder[k] \in DOMAIN texts
    THEN <<"\n", Begin(BatchOrder[k]), "\n">> \o texts[BatchOrder[k]]
           \o <<"\n", "E", "\n">>
    ELSE <<>>])

\* The least k >= from such that the k units after position g are followed
\* by "\n", the closing comment and "\n"; 0 when there is none.
RECURSIVE lazyEnd(_, _, _)
lazyEnd(result, g, k) ==
  IF g + k + 2 > Len(result) THEN 0
  ELSE IF result[g + k] = "\n" /\ result[g + k + 1] = "E" /\ result[g + k + 2] = "\n"
  THEN k
  ELSE lazyEnd(result, g, k + 1)

\* The match of the pattern that starts at position s, or Null:
\* (?:^|\n) comment <([^>]+)> \n ([^]+?) \n comment \n.
matchPart(result, s) ==
  LET b == IF s = 1 /\ IsBegin(result[s]) THEN s ELSE s + 1
  IN  IF b + 1 > Len(result) \/ (b = s + 1 /\ result[s] # "\n")
         \/ ~IsBegin(result[b]) \/ result[b + 1] # "\n"
      THEN Null
      ELSE Let(lazyEnd(result, b + 2, 1), LAMBDA k :
             IF k = 0 THEN Null
             ELSE Some([path |-> PathOfBegin(result[b]),
                        text |-> SubSeq(result, b + 2, b + 1 + k),
                        end |-> b + 2 + k + 3]))

RECURSIVE splitParts(_, _, _)
\* The loop of regex.exec over the converter's result: stored holds, for
\* each selected path, the fragment stored in its record so far.
splitParts(result, s, stored) ==
  IF s > Len(result) THEN stored
  ELSE Let(matchPart(result, s), LAMBDA r :
         IF IsNull(r) THEN splitParts(result, s + 1, stored)
         ELSE splitParts(result, Val(r).end,
                         [stored EXCEPT ![Val(r).path] = Some(Val(r).text)]))

\* -------------------------------------------------------------------- state
VARIABLES
  disk,        \* the stylesheet files: path -> text, or Null when absent
  manifestOk,  \* whether the manifest file can be read and parsed
  mapping,     \* the mapping the manifest file holds when it can be
  urls,        \* SassMergeBuilder.urls: the mapping last loaded, if any
  options,     \* the merger's options: target, and whether resolveUrl is a manifest path
  heap,        \* the File Records
  cache,       \* the cache object handed to the builds: path -> record
  pathCache,   \* SassMerge.cache: specifier -> resolved path
  clock,       \* the last build marker given out (microtime.now())
  progress,    \* SassMergeBuilder.progress of the shared builder
  task,        \* the calls in flight: one record per caller slot
  watched,     \* the paths registered with the filesystem watcher
  previouslyWatched,          \* SassMergeWatcher.previouslyWatched
  isWatchingOnManifestFile,   \* SassMergeWatcher.isWatchingOnManifestFile
  pending,     \* filesystem events the watcher has yet to deliver to run()
  edits,       \* the number of edits made so far
  changed,     \* the paths edited since the last load
  last,        \* what the last settled build left: its result and the heap
  resolver,    \* a merger used for its path resolver alone, and its disk
  filter       \* a text handed to one of the text passes, and what it returned

vars == <<disk, manifestOk, mapping, urls, options, heap, cache, pathCache, clock,
          progress, task, watched, previouslyWatched, isWatchingOnManifestFile, pending, edits,
          changed, last, resolver, filter>>

watcherVars == <<watched, previouslyWatched, isWatchingOnManifestFile, pending>>

Specifiers == Paths
Manifest == <<"manifest", "json">>

\* The text on disk of file p: its import directives, then its own text.
FileText(p, imports, v) ==
  [i \in 1..Len(imports) |-> Imp(imports[i])] \o <<Txt(p, v, determineFileFormat(p))>>

\* The import lists the environment may give each file.
ImportMenu(p) ==
  CASE p = R -> {<<A, C>>, <<A>>, <<R>>}
    [] p = A -> {<<B>>, <<>>, <<R>>}
    [] p = B -> {<<>>, <<A>>}
    [] p = C -> {<<>>}
    [] OTHER -> {}

Versions == {1, 2}

\* What the environment may leave at path p: one of its texts, or (for the
\* files other than the root) nothing.
DiskMenu(p) ==
  {Some(FileText(p, imports, v)) : imports \in ImportMenu(p), v \in Versions}
    \cup (IF p = B THEN {Null} ELSE {})

InitDisk ==
  [p \in Paths |->
     CASE p = R -> Some(FileText(R, <<A, C>>, 1))
       [] p = A -> Some(FileText(A, <<B>>, 1))
       [] OTHER -> Some(FileText(p, <<>>, 1))]

IdleTask ==
  [pc |-> "idle", kind |-> "none", buildTime |-> 0, files |-> NoFiles, sent |-> {},
   out |-> Null, err |-> Null, visited |-> {}, created |-> {}, built |-> {},
   conv |-> 0, events |-> <<>>, overlap |-> FALSE, watchSet |-> {}, reads |-> <<>>]

NoLast ==
  [ok |-> FALSE, out |-> Null, heap |-> NoRecs, files |-> NoFiles,
   disk |-> [p \in Paths |-> Null]]

InFlight(i) == task[i].pc \in {"loaded", "converting", "converted", "settling"}
Free(i) == task[i].pc \in {"idle", "done"}
\* A new call takes the first slot that holds no call in flight.
Slot(i) == Free(i) /\ \A j \in Tasks : j < i => InFlight(j)

\* ------------------------------------------------------------- resolveUrls
\* The address of a url(...) clause is a sequence of pieces of text, "?"
\* and "#" pieces of their own; a clause is the address and its quote.
StylesheetDir == <<"src/">>
ProcessCwd == <<"run/">>
PublicPath == "/assets/"
Addresses == {<<"img.png">>, <<"/", "img.png">>, <<"http://", "img.png">>,
              <<"//", "img.png">>}
Suffixes == {<<>>, <<"?", "v">>, <<"#", "h">>, <<"?", "v", "#", "h">>,
             <<"?", "#", "h">>, <<"?", "v", "?", "w">>, <<"#", "h", "#", "g">>}
Clauses == {[quote |-> q, url |-> a \o x] :
              q \in {"'", "\""}, a \in Addresses, x \in Suffixes}
UrlFiles == {ProcessCwd \o <<"img.png">>, <<"libs/", "img.png">>}
UrlKeys == {StylesheetDir \o <<"img.png">>, ProcessCwd \o <<"img.png">>,
            <<"/", "img.png">>}

\* The first two fields of text.split(separator); a field that is missing
\* and a field that is empty are both <<>>.
split(text, separator) ==
  LET at(t) == {i \in 1..Len(t) : t[i] = separator}
      first(t) == IF at(t) = {} THEN t ELSE SubSeq(t, 1, Min(at(t)) - 1)
  IN  <<first(text),
        IF at(text) = {} THEN <<>>
        ELSE first(SubSeq(text, Min(at(text)) + 1, Len(text)))>>

\* /^(?:(?:http|ftp)s?:)?\/\//
external(url) == url # <<>> /\ url[1] \in {"http://", "https://", "ftp://", "ftps://", "//"}

\* resolveUrl(filePath, initiatorFilePath, relativePath, ...) with a manifest
\* (this.urls) or a literal mapping as options.resolveUrl: keys are the
\* paths the mapping has an entry for, each entry "hashed.png".
resolveUrl(keys, filePath, relativePath) ==
  IF filePath \in keys THEN <<PublicPath, "hashed.png">> ELSE relativePath

\* The callback of resolveUrls(filePath, content, format) for one clause of
\* a file of the directory StylesheetDir, on a merger whose cache of paths
\* is empty; fs are the files that exist.
resolveUrls(fs, keys, startingWithSlash, clause) ==
  LET hashed == split(clause.url, "#")
      hash == IF hashed[2] # <<>> THEN <<"#">> \o hashed[2] ELSE <<>>
      queried == split(hashed[1], "?")
      url == queried[1]
      query == IF queried[2] # <<>> THEN <<"?">> \o queried[2] ELSE <<>>
  IN  IF external(url) THEN clause
      ELSE IF ~startingWithSlash /\ startsWith(url, <<"/">>) THEN clause
      ELSE LET found == resolveFilePathIn(fs, url, ProcessCwd).path
               absolutePath == IF startsWith(url, <<"/">>) THEN url
                               ELSE IF ~IsNull(found) THEN Val(found)
                               ELSE StylesheetDir \o url
           IN  [quote |-> "\"",
                url |-> resolveUrl(keys, absolutePath, url) \o query \o hash]

\* The resolver's merger as constructed: nothing on its disk, its cache
\* empty (this.cache = {}), and no call of resolveFilePath made yet.
RKeys == RSpecifiers \X RCwds
NewResolver(caching) ==
  [caching |-> caching, fs |-> {}, cache |-> [k \in RKeys |-> Null],
   fsEdits |-> 0, call |-> Null]

InitBuilds ==
  /\ disk = InitDisk
  /\ manifestOk = TRUE
  /\ mapping = 1
  /\ urls = Null
  /\ heap = NoRecs
  /\ cache = NoFiles
  /\ pathCache = [s \in Specifiers |-> Null]
  /\ clock = 0
  /\ progress = FALSE
  /\ task = [i \in Tasks |-> IdleTask]
  /\ watched = {}
  /\ previouslyWatched = {}
  /\ isWatchingOnManifestFile = FALSE
  /\ pending = 0
  /\ edits = 0
  /\ changed = {}
  /\ last = NoLast

\* No text has been handed to a pass.
NoFilter == [pass |-> "none", format |-> "", input |-> <<>>, output |-> Null]

InitCommon ==
  /\ InitBuilds
  /\ resolver = NewResolver(cacheFilePaths)
  /\ filter = NoFilter

\* ------------------------------------------------------------------- _build
\* loadFilesMapping: reads the manifest when resolveUrl names one.
loadFilesMappingFails == options.manifest /\ ~manifestOk

\* A loadFilesMapping that keeps the mapping it has.
loadFilesMapping_keeps(u, m) == u

\* this.urls after a loadFilesMapping that did not throw: u is this.urls
\* before it and m the mapping the manifest file holds.
loadFilesMapping(u, m) == IF options.manifest THEN Some(m) ELSE u

\* The synchronous start of _build(cache) for the call in slot i: the
\* manifest, the build marker and the whole of loadAllFiles.  t0 is the
\* slot's record as the caller has set it up, slots the other slots' records,
\* builds the number of builds a behaviour may start.
_buildStartWithin(i, slots, t0, builds) ==
  IF loadFilesMappingFails
  THEN /\ task' = [slots EXCEPT ![i] = [t0 EXCEPT !.pc = "settling",
                                                   !.err = Some(Error("Manifest"))]]
       /\ UNCHANGED <<heap, cache, pathCache, clock, changed, urls>>
  ELSE /\ clock < builds
       /\ urls' = loadFilesMapping(urls, mapping)
       /\ \E ld \in {loadAllFiles(disk, heap, cache, pathCache, clock + 1)} :
            LET buildTime == clock + 1
            IN
              /\ clock' = buildTime
              /\ heap' = ld.h
              /\ cache' = ld.cache
              /\ pathCache' = ld.pc
              /\ changed' = {}
              /\ task' = [slots EXCEPT ![i] =
                   IF IsNull(ld.err)
                   THEN [t0 EXCEPT !.pc = "loaded", !.buildTime = buildTime,
                                   !.files = ld.files, !.visited = ld.visited,
                                   !.created = ld.created, !.reads = ld.reads]
                   ELSE [t0 EXCEPT !.pc = "settling", !.buildTime = buildTime,
                                   !.visited = ld.visited, !.created = ld.created,
                                   !.reads = ld.reads, !.err = ld.err]]

_buildStart(i, slots, t0) == _buildStartWithin(i, slots, t0, MaxBuilds)

\* prepareFilesToFormat up to its await: nothing to convert, or one call of
\* the converter.
Prepare(i) ==
  /\ task[i].pc = "loaded"
  /\ LET sent == convertable(heap, task[i].files, options.target)
     IN  task' = [task EXCEPT ![i] =
           IF sent = {} THEN [@ EXCEPT !.pc = "converted"]
           ELSE [@ EXCEPT !.pc = "converting", !.sent = sent, !.conv = @ + 1]]
  /\ UNCHANGED <<resolver, filter, mapping, urls>>
  /\ UNCHANGED <<disk, manifestOk, options, heap, cache, pathCache, clock, progress,
                 watcherVars, edits, changed, last>>

\* The converter returns its result: every part is stored.
ConvertDone(i) ==
  /\ task[i].pc = "converting"
  /\ heap' = storeConverted(heap, task[i].files, task[i].sent, options.target,
                            task[i].buildTime)
  /\ task' = [task EXCEPT ![i].pc = "converted"]
  /\ UNCHANGED <<resolver, filter, mapping, urls>>
  /\ UNCHANGED <<disk, manifestOk, options, cache, pathCache, clock, progress,
                 watcherVars, edits, changed, last>>

\* A converter that fails after its result was stored.
ConvertFailed_stored(i) ==
  /\ task[i].pc = "converting"
  /\ heap' = storeConverted(heap, task[i].files, task[i].sent, options.target,
                            task[i].buildTime)
  /\ task' = [task EXCEPT ![i].pc = "settling",
                          ![i].err = Some([Error("Conversion") EXCEPT
                                             !.files = Some(Keys(task[i].files))])]
  /\ UNCHANGED <<resolver, filter, mapping, urls>>
  /\ UNCHANGED <<disk, manifestOk, options, cache, pathCache, clock, progress,
                 watcherVars, edits, changed, last>>

\* The converter fails: _build's catch attaches the files and rethrows.
ConvertFailed(i) ==
  /\ task[i].pc = "converting"
  /\ task' = [task EXCEPT ![i].pc = "settling",
                          ![i].err = Some([Error("Conversion") EXCEPT
                                             !.files = Some(Keys(task[i].files))])]
  /\ UNCHANGED <<resolver, filter, mapping, urls>>
  /\ UNCHANGED <<disk, manifestOk, options, heap, cache, pathCache, clock, progress,
                 watcherVars, edits, changed, last>>

\* buildFinalFile on the input file, and _build's return or catch.
Assemble(i) ==
  /\ task[i].pc = "converted"
  /\ \E r \in {buildFinalFile([h |-> heap, built |-> {}], options.target,
                                Val(task[i].files[inputFilePath]), task[i].files,
                                task[i].buildTime, <<>>)} :
         /\ heap' = r.h
         /\ task' = [task EXCEPT ![i] =
              IF IsNull(r.err)
              THEN [@ EXCEPT !.pc = "settling", !.out = r.out, !.built = r.built]
              ELSE [@ EXCEPT !.pc = "settling", !.built = r.built,
                             !.err = Some([Val(r.err) EXCEPT
                                             !.files = Some(Keys(task[i].files))])]]
  /\ UNCHANGED <<resolver, filter, mapping, urls>>
  /\ UNCHANGED <<disk, manifestOk, options, cache, pathCache, clock, progress,
                 watcherVars, edits, changed, last>>

\* What a settled build leaves for the next one to be compared with.
Snapshot(i) ==
  [ok |-> IsNull(task[i].err), out |-> task[i].out, heap |-> heap,
   files |-> task[i].files, disk |-> disk]

\* ------------------------------------------------------------ SassMerge.build
\* merger.build(cache): a new builder for every call, so no call is refused.
CallMerge(i) ==
  /\ Slot(i)
  /\ _buildStart(i, task, [IdleTask EXCEPT !.kind = "merge"])
  /\ UNCHANGED <<resolver, filter, mapping>>
  /\ UNCHANGED <<disk, manifestOk, options, progress, watcherVars, edits, last>>

\* The promise of merger.build settles.
SettleMerge(i) ==
  /\ task[i].pc = "settling"
  /\ task[i].kind = "merge"
  /\ task' = [task EXCEPT ![i].pc = "done"]
  /\ last' = Snapshot(i)
  /\ UNCHANGED <<resolver, filter, mapping, urls>>
  /\ UNCHANGED <<disk, manifestOk, options, heap, cache, pathCache, clock, progress,
                 watcherVars, edits, changed>>

\* --------------------------------------------------- SassMergeBuilder.build
\* builder.build(cache) on the one builder, its flag clear: the flag is set
\* and _build starts.
CallBuild(i) ==
  /\ Slot(i)
  /\ ~progress
  /\ progress' = TRUE
  /\ _buildStart(i, task, [IdleTask EXCEPT !.kind = "build"])
  /\ UNCHANGED <<resolver, filter, mapping>>
  /\ UNCHANGED <<disk, manifestOk, options, watcherVars, edits, last>>

\* A refusal that clears the flag, as the catch branch of build does.
BuildRejected_clearsFlag(i) ==
  /\ Slot(i)
  /\ progress
  /\ progress' = FALSE
  /\ task' = [task EXCEPT ![i] = [IdleTask EXCEPT !.kind = "build", !.pc = "done",
                                                   !.err = Some(Error("Busy"))]]
  /\ UNCHANGED <<resolver, filter, mapping, urls>>
  /\ UNCHANGED <<disk, manifestOk, options, heap, cache, pathCache, clock,
                 watcherVars, edits, changed, last>>

\* builder.build(cache) with the flag set: the call throws before its try.
BuildRejected(i) ==
  /\ Slot(i)
  /\ progress
  /\ task' = [task EXCEPT ![i] = [IdleTask EXCEPT !.kind = "build", !.pc = "done",
                                                   !.err = Some(Error("Busy"))]]
  /\ UNCHANGED <<resolver, filter, mapping, urls>>
  /\ UNCHANGED <<disk, manifestOk, options, heap, cache, pathCache, clock, progress,
                 watcherVars, edits, changed, last>>

\* A continuation whose catch branch leaves the flag as it is.
SettleBuild_keepsFlagOnError(i) ==
  /\ task[i].pc = "settling"
  /\ task[i].kind = "build"
  /\ progress' = (progress /\ ~IsNull(task[i].err))
  /\ task' = [task EXCEPT ![i].pc = "done"]
  /\ last' = Snapshot(i)
  /\ UNCHANGED <<resolver, filter, mapping, urls>>
  /\ UNCHANGED <<disk, manifestOk, options, heap, cache, pathCache, clock,
                 watcherVars, edits, changed>>

\* build's continuation after its await, on either branch: the flag is cleared.
SettleBuild(i) ==
  /\ task[i].pc = "settling"
  /\ task[i].kind = "build"
  /\ progress' = FALSE
  /\ task' = [task EXCEPT ![i].pc = "done"]
  /\ last' = Snapshot(i)
  /\ UNCHANGED <<resolver, filter, mapping, urls>>
  /\ UNCHANGED <<disk, manifestOk, options, heap, cache, pathCache, clock,
                 watcherVars, edits, changed>>

\* ---------------------------------------------------------- SassMergeWatcher
\* A watchFiles that only ever adds paths.
watchFiles_addOnly(w, prev, filePaths) ==
  [watched |-> w \cup filePaths, previouslyWatched |-> filePaths]

\* watchFiles(filePaths), the lists taken as sets: w is the set of paths the
\* filesystem watcher holds, prev is previouslyWatched.
watchFiles(w, prev, filePaths) ==
  LET toRemove == prev \ filePaths
      toAdd == filePaths \ prev
  IN  [watched |-> (w \ toRemove) \cup toAdd, previouslyWatched |-> filePaths]

\* watchForManifestFile.
watchForManifestFile(w, isWatching) ==
  IF isWatching \/ ~options.manifest
  THEN [watched |-> w, isWatchingOnManifestFile |-> isWatching]
  ELSE [watched |-> w \cup {Manifest}, isWatchingOnManifestFile |-> TRUE]

\* run() up to its await: 'run' is emitted, the manifest file is watched and
\* _build starts, whatever other run is in flight.
runStart(i) ==
  /\ Slot(i)
  /\ LET wm == watchForManifestFile(watched, isWatchingOnManifestFile)
     IN  /\ watched' = wm.watched
         /\ isWatchingOnManifestFile' = wm.isWatchingOnManifestFile
  /\ _buildStart(i,
       [j \in Tasks |-> IF InFlight(j) THEN [task[j] EXCEPT !.overlap = TRUE]
                        ELSE task[j]],
       [IdleTask EXCEPT !.kind = "run", !.events = <<"run">>,
                        !.overlap = \E j \in Tasks : InFlight(j)])
  /\ UNCHANGED <<resolver, filter, mapping>>
  /\ UNCHANGED <<disk, manifestOk, options, progress, previouslyWatched, edits, last>>

\* The program calls watcher.run() to start watching.
RunCall(i) ==
  /\ \A j \in Tasks : task[j].pc = "idle"
  /\ runStart(i)
  /\ UNCHANGED pending

\* The filesystem watcher delivers an event: its handler calls run().  The
\* event loop gets to it only when no run has a continuation ready, that is
\* when every run in flight is waiting for the converter.
RunEvent(i) ==
  /\ pending > 0
  /\ \A j \in Tasks : InFlight(j) => task[j].pc = "converting"
  /\ pending' = pending - 1
  /\ runStart(i)

\* The try branch after the await: the build's files are watched, 'ready' is
\* emitted and its listeners return.
RunReady(i) ==
  /\ task[i].pc = "settling"
  /\ task[i].kind = "run"
  /\ IsNull(task[i].err)
  /\ LET wf == watchFiles(watched, previouslyWatched, Keys(task[i].files))
     IN  /\ watched' = wf.watched
         /\ previouslyWatched' = wf.previouslyWatched
         /\ task' = [task EXCEPT ![i].pc = "done",
                                 ![i].events = Append(@, "ready"),
                                 ![i].watchSet = wf.watched]
  /\ last' = Snapshot(i)
  /\ UNCHANGED <<resolver, filter, mapping, urls>>
  /\ UNCHANGED <<disk, manifestOk, options, heap, cache, pathCache, clock, progress,
                 isWatchingOnManifestFile, pending, edits, changed>>

\* The same, but a listener of 'ready' throws (the program's own listener
\* writes the output file): emit throws inside the try, and the catch branch
\* runs with the listener's error, which carries no paths.
RunReadyThrows(i) ==
  /\ task[i].pc = "settling"
  /\ task[i].kind = "run"
  /\ IsNull(task[i].err)
  /\ LET wf == watchFiles(watched, previouslyWatched, Keys(task[i].files))
         wc == IF wf.previouslyWatched = {} THEN wf
               ELSE watchFiles(wf.watched, wf.previouslyWatched, wf.previouslyWatched)
     IN  /\ watched' = wc.watched
         /\ previouslyWatched' = wc.previouslyWatched
         /\ task' = [task EXCEPT ![i].pc = "done",
                                 ![i].events = @ \o <<"ready", "error">>,
                                 ![i].watchSet = wc.watched]
  /\ last' = Snapshot(i)
  /\ UNCHANGED <<resolver, filter, mapping, urls>>
  /\ UNCHANGED <<disk, manifestOk, options, heap, cache, pathCache, clock, progress,
                 isWatchingOnManifestFile, pending, edits, changed>>

\* The catch branch after a failed build: what was watched, the candidates
\* of an unresolved import and the error's files are watched; 'error' is
\* emitted.
RunError(i) ==
  /\ task[i].pc = "settling"
  /\ task[i].kind = "run"
  /\ ~IsNull(task[i].err)
  /\ LET error == Val(task[i].err)
         watchedFiles ==
           previouslyWatched
             \cup (IF IsNull(error.availablePaths) THEN {}
                   ELSE SeqToSet(Val(error.availablePaths)))
             \cup (IF IsNull(error.files) THEN {} ELSE Val(error.files))
         wf == IF watchedFiles = {}
               THEN [watched |-> watched, previouslyWatched |-> previouslyWatched]
               ELSE watchFiles(watched, previouslyWatched, watchedFiles)
     IN  /\ watched' = wf.watched
         /\ previouslyWatched' = wf.previouslyWatched
         /\ task' = [task EXCEPT ![i].pc = "done",
                                 ![i].events = Append(@, "error"),
                                 ![i].watchSet = wf.watched]
  /\ last' = Snapshot(i)
  /\ UNCHANGED <<resolver, filter, mapping, urls>>
  /\ UNCHANGED <<disk, manifestOk, options, heap, cache, pathCache, clock, progress,
                 isWatchingOnManifestFile, pending, edits, changed>>

\* -------------------------------------------------------------- environment
\* The environment leaves at path p something else out of menu, in a
\* behaviour of at most n edits.
EditWithin(p, menu, n) ==
  /\ edits < n
  /\ \E c \in menu \ {disk[p]} : disk' = [disk EXCEPT ![p] = c]
  /\ edits' = edits + 1
  /\ changed' = changed \cup {p}
  /\ pending' = IF p \in watched THEN pending + 1 ELSE pending
  /\ UNCHANGED <<resolver, filter, mapping, urls>>
  /\ UNCHANGED <<manifestOk, options, heap, cache, pathCache, clock, progress, task,
                 watched, previouslyWatched, isWatchingOnManifestFile, last>>

Edit(p, menu) == EditWithin(p, menu, MaxEdits)

EditFile(p) == Edit(p, DiskMenu(p))

\* The wider environment: the root may be removed, a file may be imported
\* by several files, a plain file may hold an import directive, and d.css.map
\* may be imported.
WideImportMenu(p) ==
  CASE p = A -> ImportMenu(A) \cup {<<C>>}
    [] p = B -> ImportMenu(B) \cup {<<D>>}
    [] p = C -> ImportMenu(C) \cup {<<B>>}
    [] OTHER -> ImportMenu(p)

WideMenu(p) ==
  {Some(FileText(p, imports, v)) : imports \in WideImportMenu(p), v \in Versions}
    \cup (IF p \in {R, B} THEN {Null} ELSE {})

EditWide(p) == Edit(p, WideMenu(p))

\* The manifest file is broken or repaired, or its mapping is rewritten,
\* whether or not the merger is configured to read it.
EditManifest ==
  /\ edits < MaxEdits
  /\ \/ manifestOk' = ~manifestOk /\ mapping' = mapping
     \/ manifestOk /\ manifestOk' = manifestOk /\ mapping' \in Versions \ {mapping}
  /\ edits' = edits + 1
  /\ pending' = IF Manifest \in watched THEN pending + 1 ELSE pending
  /\ UNCHANGED <<resolver, filter, urls>>
  /\ UNCHANGED <<disk, options, heap, cache, pathCache, clock, progress, task,
                 watched, previouslyWatched, isWatchingOnManifestFile, changed, last>>

\* ---------------------------------------------------- the resolver, alone
buildVars == <<disk, manifestOk, mapping, urls, options, heap, cache, pathCache,
               clock, progress, task, watched, previouslyWatched, isWatchingOnManifestFile, pending,
               edits, changed, last>>

\* Every path the resolver can be asked about.
RPaths ==
  UNION {SeqToSet(getAvailableFilePathsIn(k[1], k[2])) : k \in RKeys}

\* merger.resolveFilePath(filePath, fromFilePath), cwd the directory of
\* fromFilePath; call records the call and what it returned.
Resolve(filePath, cwd) ==
  /\ \E r \in {resolveFilePathCached(resolver.caching, resolver.fs, resolver.cache,
                                      filePath, cwd)} :
       resolver' = [resolver EXCEPT
                      !.cache = r.cache,
                      !.call = Some([filePath |-> filePath, cwd |-> cwd,
                                     path |-> r.path, tested |-> r.tested])]
  /\ UNCHANGED <<buildVars, filter>>

\* merger.clean()
Clean ==
  /\ resolver' = [resolver EXCEPT !.cache = [k \in RKeys |-> Null], !.call = Null]
  /\ UNCHANGED <<buildVars, filter>>

\* The environment creates or removes the file at path p.
CreateFile(p) ==
  /\ resolver.fsEdits < MaxFsEdits
  /\ p \notin resolver.fs
  /\ resolver' = [resolver EXCEPT !.fs = @ \cup {p}, !.fsEdits = @ + 1, !.call = Null]
  /\ UNCHANGED <<buildVars, filter>>

RemoveFile(p) ==
  /\ resolver.fsEdits < MaxFsEdits
  /\ p \in resolver.fs
  /\ resolver' = [resolver EXCEPT !.fs = @ \ {p}, !.fsEdits = @ + 1, !.call = Null]
  /\ UNCHANGED <<buildVars, filter>>

ResolveInit ==
  /\ InitBuilds
  /\ options = [target |-> "scss", manifest |-> FALSE]
  /\ resolver \in {NewResolver(caching) : caching \in BOOLEAN}
  /\ filter = NoFilter

ResolveNext ==
  \/ \E k \in RKeys : Resolve(k[1], k[2])
  \/ Clean
  \/ \E p \in RPaths : CreateFile(p)
  \/ \E p \in RPaths : RemoveFile(p)

SpecResolve == ResolveInit /\ [][ResolveNext]_vars

\* ------------------------------------------------- the text passes, alone
\* The merger's build state as constructed, no text handed to a pass yet.
FilterInitCommon ==
  /\ InitBuilds
  /\ options = [target |-> "scss", manifest |-> FALSE]
  /\ resolver = NewResolver(cacheFilePaths)

\* prepareFilesToFormat with a converter that returns what it is given: input
\* holds the native texts of the selected files, output the fragment stored
\* for each.
ApplyBatch ==
  /\ filter.pass = "batch"
  /\ IsNull(filter.output)
  /\ filter' = [filter EXCEPT
                  !.output = Some(splitParts(bundledContent(filter.input), 1,
                                             [p \in DOMAIN filter.input |-> Null]))]
  /\ UNCHANGED <<buildVars, resolver>>

BatchInit ==
  /\ FilterInitCommon
  /\ filter \in {[pass |-> "batch", format |-> f, input |-> texts, output |-> Null] :
                   f \in {"scss", "sass"},
                   texts \in UNION {[S -> BatchTexts] :
                                      S \in {T \in SUBSET BatchPaths :
                                                T # {} /\ Cardinality(T) <= MaxPieces}}}

BatchNext == ApplyBatch

SpecBatch == BatchInit /\ [][BatchNext]_vars

\* ------------------------------------------------- one File Record, alone
\* The texts written to a record, and the build markers of the writes.
RecordTexts == {<<Txt(R, 1, "")>>, <<Imp(A), Txt(R, 2, ""), Imp(B)>>}
RecordMarkers == {1, 2}

\* One call on the record; input holds the record, format the syntax the
\* call names and output what the call was and the list it returned.
CallSetUnprocessedContent ==
  /\ filter.pass = "record"
  /\ \E f \in Formats, c \in RecordTexts, t \in RecordMarkers :
       filter' = [filter EXCEPT
                    !.format = f,
                    !.input = setUnprocessedContent(filter.input, f, c, t),
                    !.output = Some([op |-> "setUnprocessedContent", imports |-> <<>>])]
  /\ UNCHANGED <<buildVars, resolver>>

CallSetFinalContent ==
  /\ filter.pass = "record"
  /\ \E f \in Formats, c \in RecordTexts, t \in RecordMarkers :
       filter' = [filter EXCEPT
                    !.format = f,
                    !.input = setFinalContent(filter.input, f, c, t),
                    !.output = Some([op |-> "setFinalContent", imports |-> <<>>])]
  /\ UNCHANGED <<buildVars, resolver>>

CallGetImports ==
  /\ filter.pass = "record"
  /\ \E f \in Formats :
       \E r \in {getImports(filter.input, f)} :
         filter' = [filter EXCEPT
                      !.format = f,
                      !.input = r.rec,
                      !.output = Some([op |-> "getImports", imports |-> r.imports])]
  /\ UNCHANGED <<buildVars, resolver>>

RecordInit ==
  /\ FilterInitCommon
  /\ filter \in {[pass |-> "record", format |-> determineFileFormat(p),
                   input |-> SassMergeFile(p, c, 1), output |-> Null] :
                   p \in {R, B, C}, c \in RecordTexts}

RecordNext ==
  \/ CallSetUnprocessedContent
  \/ CallSetFinalContent
  \/ CallGetImports

SpecRecord == RecordInit /\ [][RecordNext]_vars

\* optimizeRedundantFunctionsAndMixins: the pass returns.
ApplyMixins ==
  /\ filter.pass = "mixins"
  /\ IsNull(filter.output)
  /\ filter' = [filter EXCEPT
                  !.output = Some(removeRedundantFunctionsAndMixins(filter.input,
                                                                     filter.format))]
  /\ UNCHANGED <<buildVars, resolver>>

MixinsInit ==
  /\ FilterInitCommon
  /\ filter \in {[pass |-> "mixins", format |-> f, input |-> c, output |-> Null] :
                   f \in {"scss", "sass"},
                   c \in BoundedSeq(Declarations \cup {OtherText}, MaxPieces)}

MixinsNext == ApplyMixins

SpecMixins == MixinsInit /\ [][MixinsNext]_vars

\* optimizeRedundantVariables: the pass returns; input holds the statements
\* of the text, the pass is given their tokens.
ApplyVariables ==
  /\ filter.pass = "variables"
  /\ IsNull(filter.output)
  /\ filter' = [filter EXCEPT
                  !.output = Some(removeRedundantVariables(TokensOf(filter.input),
                                                            filter.format))]
  /\ UNCHANGED <<buildVars, resolver>>

VariablesInit ==
  /\ FilterInitCommon
  /\ filter \in {[pass |-> "variables", format |-> f, input |-> c, output |-> Null] :
                   f \in {"scss", "sass"}, c \in BoundedSeq(Statements, MaxPieces)}

VariablesNext == ApplyVariables

SpecVariables == VariablesInit /\ [][VariablesNext]_vars

\* buildFinalFile: the imports of a text have been replaced; input holds the
\* pieces of the text.
ApplySplice ==
  /\ filter.pass = "splice"
  /\ IsNull(filter.output)
  /\ \E content \in {TokensOf(filter.input)} :
       filter' = [filter EXCEPT
                    !.output = Some(replaceImports(
                                      content,
                                      getImportsFrom(content, 1, filter.format),
                                      Len(getImportsFrom(content, 1, filter.format))))]
  /\ UNCHANGED <<buildVars, resolver>>

SpliceInit ==
  /\ FilterInitCommon
  /\ filter \in {[pass |-> "splice", format |-> f, input |-> c, output |-> Null] :
                   f \in {"scss", "sass"},
                   c \in BoundedSeq(SplicePieces("scss") \cup SplicePieces("sass"),
                                    MaxPieces)}
  /\ \A k \in 1..Len(filter.input) : filter.input[k] \in SplicePieces(filter.format)

SpliceNext == ApplySplice

SpecSplice == SpliceInit /\ [][SpliceNext]_vars

\* readFile: resolveUrls has returned for a clause of the file read.
ApplyUrls ==
  /\ filter.pass = "urls"
  /\ IsNull(filter.output)
  /\ filter' = [filter EXCEPT
                  !.output = Some(resolveUrls(filter.input.fs, filter.input.keys,
                                              filter.input.startingWithSlash,
                                              filter.input.clause))]
  /\ UNCHANGED <<buildVars, resolver>>

\* format is how options.resolveUrl is given: "string" a manifest, "object"
\* a literal mapping.
UrlsInit ==
  /\ FilterInitCommon
  /\ filter \in {[pass |-> "urls", format |-> f, output |-> Null,
                   input |-> [clause |-> c, fs |-> fs, keys |-> keys,
                              startingWithSlash |-> w]] :
                   f \in {"string", "object"}, c \in Clauses, fs \in SUBSET UrlFiles,
                   keys \in SUBSET UrlKeys, w \in BOOLEAN}

UrlsNext == ApplyUrls

SpecUrls == UrlsInit /\ [][UrlsNext]_vars

\* ------------------------------------------- sequential builds of one merger
SeqInit ==
  /\ InitCommon
  /\ options \in {[target |-> t, manifest |-> FALSE] : t \in {"scss", "sass"}}

SeqNext ==
  \/ CallMerge(1)
  \/ Prepare(1)
  \/ ConvertDone(1)
  \/ ConvertFailed(1)
  \/ Assemble(1)
  \/ SettleMerge(1)
  \/ (Free(1) /\ \E p \in Paths : EditFile(p))

SpecSeq == SeqInit /\ [][SeqNext]_vars

\* ------------------- sequential builds of one merger, the wider environment
WideInit == SeqInit

WideNext ==
  \/ CallMerge(1)
  \/ Prepare(1)
  \/ ConvertDone(1)
  \/ ConvertFailed(1)
  \/ Assemble(1)
  \/ SettleMerge(1)
  \/ (Free(1) /\ \E p \in Paths : EditWide(p))

SpecWide == WideInit /\ [][WideNext]_vars

\* ----------------------- sequential builds of two mergers sharing a cache
\* merger.build(cache) on the merger whose target is target: two mergers of
\* the same input file, one for each target, are given the same cache
\* object; options are those of the merger that builds.  No file is ever
\* removed here, so both mergers resolve every specifier alike and one
\* cache of resolved paths stands for both.
CallMergeOf(i, target) ==
  /\ Slot(i)
  /\ options' = [options EXCEPT !.target = target]
  /\ _buildStartWithin(i, task, [IdleTask EXCEPT !.kind = "merge"], MaxSharedBuilds)
  /\ UNCHANGED <<resolver, filter, mapping>>
  /\ UNCHANGED <<disk, manifestOk, progress, watcherVars, edits, last>>

\* The environment of a file imported by several files: r.scss imports
\* b.sass itself, and a.scss, which imports b.sass too, or not.
SharedMenu(p) ==
  CASE p = R -> {Some(FileText(R, imports, 1)) : imports \in {<<A, B>>, <<B>>}}
    [] p = B -> {Some(FileText(B, <<>>, v)) : v \in Versions}
    [] OTHER -> {}

EditShared(p) == EditWithin(p, SharedMenu(p), MaxSharedEdits)

SharedInit == SeqInit

SharedNext ==
  \/ \E target \in {"scss", "sass"} : CallMergeOf(1, target)
  \/ Prepare(1)
  \/ ConvertDone(1)
  \/ ConvertFailed(1)
  \/ Assemble(1)
  \/ SettleMerge(1)
  \/ (Free(1) /\ \E p \in Paths : EditShared(p))

SpecShared == SharedInit /\ [][SharedNext]_vars

\* ------------------------------------- overlapping builds of one merger
MergeInit == SeqInit

MergeNext ==
  \/ \E i \in Tasks :
       \/ CallMerge(i)
       \/ Prepare(i)
       \/ ConvertDone(i)
       \/ ConvertFailed(i)
       \/ Assemble(i)
       \/ SettleMerge(i)
  \/ (edits < MaxOverlapEdits /\ \E p \in Paths : EditFile(p))

SpecMerge == MergeInit /\ [][MergeNext]_vars

\* ------------------------------------------ calls of build on one builder
BuilderInit ==
  /\ InitCommon
  /\ options \in {[target |-> t, manifest |-> m] : t \in {"scss", "sass"},
                                                   m \in BOOLEAN}

BuilderNext ==
  \/ \E i \in Tasks :
       \/ CallBuild(i)
       \/ BuildRejected(i)
       \/ Prepare(i)
       \/ ConvertDone(i)
       \/ ConvertFailed(i)
       \/ Assemble(i)
       \/ SettleBuild(i)
  \/ \E p \in Paths : EditFile(p)
  \/ EditManifest

SpecBuilder == BuilderInit /\ [][BuilderNext]_vars

\* ------------------------------------------------------------- the watcher
Init ==
  /\ InitCommon
  /\ options \in {[target |-> t, manifest |-> m] : t \in {"scss", "sass"},
                                                   m \in BOOLEAN}

Next ==
  \/ \E i \in Tasks :
       \/ RunCall(i)
       \/ RunEvent(i)
       \/ Prepare(i)
       \/ ConvertDone(i)
       \/ ConvertFailed(i)
       \/ Assemble(i)
       \/ RunReady(i)
       \/ RunReadyThrows(i)
       \/ RunError(i)
  \/ \E p \in Paths : EditFile(p)
  \/ EditManifest

Spec == Init /\ [][Next]_vars

\* ------------------------------------------- one watcher, run after run
\* watcher.clean(), called while no run is in flight: this.cache = {}.
watcherClean ==
  /\ \A j \in Tasks : ~InFlight(j)
  /\ cache # NoFiles
  /\ cache' = NoFiles
  /\ UNCHANGED <<resolver, filter, mapping, urls>>
  /\ UNCHANGED <<disk, manifestOk, options, heap, pathCache, clock, progress, task,
                 watched, previouslyWatched, isWatchingOnManifestFile, pending, edits,
                 changed, last>>

CleanInit ==
  /\ InitCommon
  /\ options \in {[target |-> t, manifest |-> FALSE] : t \in {"scss", "sass"}}

CleanNext ==
  \/ RunCall(1)
  \/ RunEvent(1)
  \/ Prepare(1)
  \/ ConvertDone(1)
  \/ ConvertFailed(1)
  \/ Assemble(1)
  \/ RunReady(1)
  \/ RunReadyThrows(1)
  \/ RunError(1)
  \/ (Free(1) /\ \E p \in Paths : EditFile(p))
  \/ watcherClean

SpecClean == CleanInit /\ [][CleanNext]_vars


\* ============================================================== properties
\* ------------------------------------------------------------- import graph
\* The files that the text on disk of p imports, as the loader follows them:
\* a css file's imports are never followed.
Edges(d, p) ==
  IF ~existsSync(d, p) \/ determineFileFormat(p) = "css" THEN {}
  ELSE {Val(_resolveFilePath(d, tok[2])) :
          tok \in {t \in SeqToSet(Val(d[p])) :
                     IsImp(t) /\ ~IsNull(_resolveFilePath(d, t[2]))}}

RECURSIVE ReachFrom(_, _, _)
ReachFrom(d, S, n) ==
  IF n = 0 THEN S ELSE ReachFrom(d, S \cup UNION {Edges(d, p) : p \in S}, n - 1)

Reachable(d) == ReachFrom(d, {inputFilePath}, Cardinality(Paths))
Imports(d, p, q) == q \in ReachFrom(d, Edges(d, p), Cardinality(Paths))
CycleReachable(d) == \E p \in Reachable(d) : Imports(d, p, p)

\* The build in slot i has exited and the disk is as its load read it.
Exited(i) == task[i].pc \in {"settling", "done"} /\ changed = {}
FailedWith(i, kind) == ~IsNull(task[i].err) /\ Val(task[i].err).kind = kind

\* ----------------------------------------------------------------------- C1
BuildInFlight(i) == InFlight(i) /\ task[i].kind = "build"

\* While a call of build is in flight the flag is set, and only then.
C1_FlagHeld == progress <=> \E j \in Tasks : BuildInFlight(j)

\* A call of build made while another is in flight: it ends at once with the
\* busy error, having read nothing, and changes neither the heap, the cache,
\* the resolved paths, the build marker, the flag nor any other call.
C1_CallRefused ==
  \A i \in Tasks :
    (\E j \in Tasks : BuildInFlight(j)) /\ Free(i) /\ task'[i] # task[i] =>
      /\ task'[i] = [IdleTask EXCEPT !.kind = "build", !.pc = "done",
                                     !.err = Some(Error("Busy"))]
      /\ \A j \in Tasks \ {i} : task'[j] = task[j]
      /\ UNCHANGED <<disk, heap, cache, pathCache, clock, progress>>

\* The flag is cleared only by the step in which the build holding it exits.
C1_FlagCleared ==
  progress /\ ~progress' =>
    \E j \in Tasks : /\ BuildInFlight(j)
                     /\ task[j].pc = "settling"
                     /\ task'[j].pc = "done"
                     /\ ~FailedWith(j, "Busy")

\* C1: a call of build on a builder whose earlier call has not settled fails
\* at once with the busy error; it is not queued, reads no file and changes
\* no cache entry, the earlier build goes on untouched, and the flag stays
\* set until the earlier build exits.
C1_BusyGuard == []C1_FlagHeld /\ [][C1_CallRefused /\ C1_FlagCleared]_vars

\* C1, witness: a call has been refused while the earlier build waits for
\* the converter, the flag still set.
C1_RefusedDuringBuild ==
  /\ task[1].pc = "converting"
  /\ task[1].kind = "build"
  /\ task[2].pc = "done"
  /\ FailedWith(2, "Busy")
  /\ progress

\* ----------------------------------------------------------------------- C2
\* C2, as stated: no two watcher runs are ever in flight having both loaded
\* from the watcher's cache; an event that arrives during a run waits for
\* the run to finish.
C2_OneRunAtATime ==
  Cardinality({i \in Tasks : InFlight(i) /\ task[i].kind = "run"
                               /\ task[i].buildTime > 0}) <= 1

\* ----------------------------------------------------------------------- C3
\* C3, as stated: no two builds in flight share a cache, two calls of
\* merger.build(cache) on one merger included.
C3_ExclusiveCache ==
  Cardinality({i \in Tasks : InFlight(i) /\ task[i].buildTime > 0}) <= 1

C5_Idempotent ==
  \A i \in Tasks :
    task[i].pc = "settling" /\ task[i].kind = "merge" /\ last.ok /\ disk = last.disk =>
      /\ IsNull(task[i].err)
      /\ task[i].out = last.out
      /\ task[i].files = last.files
      /\ task[i].created = {}
      /\ task[i].built = {}
      /\ task[i].conv = 0
      /\ heap = last.heap

\* C5, witness: a second build over unchanged files has exited, where the
\* first one had to convert files for its target.
C5_SecondBuild ==
  /\ task[1].pc = "settling"
  /\ task[1].buildTime >= 2
  /\ last.ok
  /\ disk = last.disk
  /\ options.target = "sass"
  /\ ~IsNull(task[1].out)

\* ----------------------------------------------------------------------- C6
ChangedPaths == {p \in Paths : disk[p] # last.disk[p]}
IsLeafText(c) == ~IsNull(c) /\ \A k \in 1..Len(Val(c)) : ~IsImp(Val(c)[k])

\* The final text of a file without imports whose text on disk is content.
LeafFinal(p, content, target) ==
  IF determineFileFormat(p) = target \/ (determineFileFormat(p) = "css" /\ target = "scss")
  THEN content
  ELSE convertFile(content, target)

\* C6: when a build succeeded and then the content of exactly one file
\* without imports changes, the next build (its converter not failing)
\* succeeds; the changed file has a new record with the new build marker and
\* the final text of its new content; every file that imports it, directly
\* or not, keeps its record, which gets the new build marker and is assembled
\* again; every other file keeps its record untouched.
C6_Incremental ==
  \A i \in Tasks : \A leaf \in Paths :
    /\ task[i].pc = "settling" /\ task[i].kind = "merge" /\ last.ok
    /\ ~FailedWith(i, "Conversion")
    /\ ChangedPaths = {leaf}
    /\ leaf \in Keys(last.files)
    /\ IsLeafText(disk[leaf]) /\ IsLeafText(last.disk[leaf])
    => /\ IsNull(task[i].err)
       /\ Keys(task[i].files) = Keys(last.files)
       /\ \A p \in Keys(task[i].files) :
            LET id == Val(task[i].files[p])
                rec == Rec(heap, id)
            IN  IF p = leaf
                THEN /\ p \in task[i].created
                     /\ id # Val(last.files[p])
                     /\ rec.buildTime = task[i].buildTime
                     /\ getFinalContent(rec, options.target)
                          = Some(LeafFinal(p, Val(disk[p]), options.target))
                ELSE IF Imports(disk, p, leaf)
                THEN /\ id = Val(last.files[p])
                     /\ rec.buildTime = task[i].buildTime
                     /\ p \in task[i].built
                     /\ hasFinalContent(rec, options.target)
                ELSE /\ id = Val(last.files[p])
                     /\ rec = Rec(last.heap, id)
                     /\ p \notin task[i].built

\* C6, witness: b.sass, imported by a.scss and so by the root, has changed
\* and the next build has succeeded, c.css being left alone.
C6_LeafChanged ==
  /\ task[1].pc = "settling"
  /\ last.ok
  /\ ChangedPaths = {B}
  /\ IsLeafText(disk[B]) /\ IsLeafText(last.disk[B])
  /\ IsNull(task[1].err)
  /\ task[1].built = {R, A, B}
  /\ C \in Keys(task[1].files)

\* ----------------------------------------------------------------------- C7
\* C7, as stated: whatever makes a build fail, the error that reaches the
\* caller carries the set of the paths the build had visited.
C7_FilesAttached ==
  \A i \in Tasks :
    task[i].pc \in {"settling", "done"} /\ ~IsNull(task[i].err)
      /\ ~FailedWith(i, "Busy") =>
        Val(task[i].err).files = Some(task[i].visited)

\* ----------------------------------------------------------------------- C8
\* C8, as stated: after a watcher run whose build failed, every path the
\* build had read before failing is watched.
C8_VisitedWatched ==
  \A i \in Tasks :
    task[i].pc = "done" /\ task[i].kind = "run" /\ ~IsNull(task[i].err) =>
      task[i].visited \subseteq task[i].watchSet

C10_OneOutcome ==
  \A i \in Tasks :
    task[i].pc = "done" /\ task[i].kind = "run" =>
      task[i].events = <<"run", IF IsNull(task[i].err) THEN "ready" ELSE "error">>

\* ---------------------------------------------------------------------- C11
\* The step in which a call of build that holds the flag exits leaves the
\* flag clear, whatever the outcome of the build.
C11_SettleClears ==
  \A i \in Tasks : BuildInFlight(i) /\ task'[i].pc = "done" => ~progress'

\* A call of build made while no call of build is in flight is not refused.
C11_NextAccepted ==
  \A i \in Tasks :
    Free(i) /\ task'[i] # task[i] /\ ~(\E j \in Tasks : BuildInFlight(j)) =>
      /\ task'[i].kind = "build"
      /\ task'[i].err # Some(Error("Busy"))

\* C11: whenever a call of build that set the flag settles, with a result or
\* with any failure (manifest, loading, conversion, assembly), the flag is
\* clear afterwards, so the next call of build is accepted; the flag is set
\* only while such a call is in flight.
C11_FlagReleased ==
  /\ [][C11_SettleClears /\ C11_NextAccepted]_vars
  /\ [](progress => \E j \in Tasks : BuildInFlight(j))

\* C11, witness: a second build has failed on the manifest and exited, and
\* the flag is clear.
C11_SettledAfterManifestFailure ==
  /\ task[1].pc = "done"
  /\ task[1].kind = "build"
  /\ FailedWith(1, "Manifest")
  /\ clock >= 1
  /\ ~progress

\* ---------------------------------------------------------------------- C12
NoDuplicates(s) == \A i, j \in 1..Len(s) : s[i] = s[j] => i = j

\* C12: one load of the graph reads each path at most once, and when it
\* succeeds its files map has as keys exactly the paths reachable from the
\* root through the import directives of nested and indented files, however
\* many files import the same path and also when the imports form a cycle.
C12_LoadExact ==
  \A i \in Tasks :
    InFlight(i) =>
      /\ NoDuplicates(task[i].reads)
      /\ task[i].files # NoFiles =>
            /\ Keys(task[i].files) = Reachable(disk)
            /\ SeqToSet(task[i].reads) = Keys(task[i].files)

\* C12, witness: a load has succeeded on a graph in which c.css is imported
\* by the root and by a.scss.
C12_SharedImport ==
  /\ task[1].pc = "loaded"
  /\ C \in Edges(disk, R)
  /\ C \in Edges(disk, A)
  /\ A \in Edges(disk, R)
  /\ task[1].reads = <<R, A, C>>

\* C12, witness: a load has succeeded on a graph with a cycle.
C12_LoadedCycle ==
  /\ task[1].pc = "settling"
  /\ task[1].files # NoFiles
  /\ CycleReachable(disk)

\* ---------------------------------------------------------------------- C13
\* The paths on which getFile has returned in the load that slot i has just
\* made: the paths read, but for the one whose read or record failed.
Fetched(t) ==
  IF IsNull(t.err) \/ t.reads = <<>> THEN SeqToSet(t.reads)
  ELSE SeqToSet(SubSeq(t.reads, 1, Len(t.reads) - 1))

\* A record that holds nothing but content in its native slot (for a css
\* file the nested slot mirrors it), written at marker buildTime.
OnlyNative(rec, content, buildTime) ==
  /\ rec.buildTime = buildTime
  /\ getUnprocessedContent(rec, rec.originalFormat) = Some(content)
  /\ \A f \in Formats \ {rec.originalFormat} :
        IF rec.originalFormat = "css" /\ f = "scss"
        THEN rec.content[f].original = Some(content)
        ELSE rec.content[f].original = Null /\ rec.content[f].final = Null
  /\ rec.content[rec.originalFormat].final =
        (IF rec.originalFormat = "css" THEN Some(content) ELSE Null)

\* The step of slot i that loads the graph, for every path it fetched: the
\* cache keeps its record, untouched, exactly when the record's native
\* original is the text just read; otherwise the cache holds a new record
\* with that text alone, stamped with the marker of this build.
C13_Fetch(i) ==
  \A p \in Fetched(task'[i]) :
    LET content == readFile(disk, pathCache', p).content
        same == /\ ~IsNull(cache[p])
                /\ getUnprocessedContent(Rec(heap, Val(cache[p])),
                                         Rec(heap, Val(cache[p])).originalFormat)
                     = Some(content)
    IN  IF same
        THEN /\ cache'[p] = cache[p]
             /\ heap'[Val(cache[p])] = heap[Val(cache[p])]
        ELSE /\ cache'[p] = Some(<<p, clock'>>)
             /\ cache'[p] # cache[p]
             /\ OnlyNative(Rec(heap', <<p, clock'>>), content, clock')

Lacking(i) ==
  {p \in Keys(task[i].files) :
     IsNull(Rec(heap, Val(task[i].files[p])).content[options.target].original)}

\* The step of slot i that follows its load: no call of the converter when
\* no record lacks the target original, and otherwise one call, on exactly
\* the records that lack it.
C14_Prepare(i) ==
  task[i].pc = "loaded" /\ task'[i].pc # "loaded" =>
    IF Lacking(i) = {}
    THEN task'[i].pc = "converted" /\ task'[i].conv = 0
    ELSE /\ task'[i].pc = "converting"
         /\ task'[i].conv = 1
         /\ task'[i].sent = Lacking(i)

\* C14: a build calls the converter at most once, and not at all when every
\* record of the build already has an original text in the target syntax;
\* the files sent are exactly the records that lack it.
C14_OneConverterCall ==
  /\ [](\A i \in Tasks : task[i].conv <= 1)
  /\ [][\A i \in Tasks : C14_Prepare(i)]_vars

\* C14, witness: the second build, to the indented syntax, asks the
\* converter for the edited c.css alone, the other records having kept their
\* converted text.
C14_OnlyChangedSent ==
  /\ options.target = "sass"
  /\ task[1].pc = "converting"
  /\ task[1].buildTime = 2
  /\ {R, A, B, C} \subseteq Keys(task[1].files)
  /\ task[1].sent = {C}

\* ---------------------------------------------------------------------- C15
\* The step is a call of resolveFilePath.
Called == resolver'.call # Null /\ resolver'.call # resolver.call
CallKey == <<Val(resolver'.call).filePath, Val(resolver'.call).cwd>>
Uncached == ~resolver.caching \/ IsNull(resolver.cache[CallKey])

\* The first path of the list cands that is in fs, if any.
FirstExisting(cands, fs) ==
  LET hits == {i \in 1..Len(cands) : cands[i] \in fs}
  IN  IF hits = {} THEN Null ELSE Some(cands[Min(hits)])

\* A call not answered from the cache returns the first candidate that
\* exists, and nothing exactly when no candidate exists.
C15_FirstCandidate ==
  Called /\ Uncached =>
    LET c == Val(resolver'.call)
        cands == getAvailableFilePathsIn(c.filePath, c.cwd)
    IN  /\ c.path = FirstExisting(cands, resolver.fs)
        /\ IsNull(c.path) <=> SeqToSet(cands) \cap resolver.fs = {}

\* The candidates of ~foo asked from src/: the local ones, then for the
\* empty prefix and for ~ in turn, each directory with each extension.
C15_Order ==
  getAvailableFilePathsIn(<<"~", "foo">>, <<"src/">>) =
    << <<"src/", "~", "foo">>, <<"src/", "~", "foo", ".scss">>,
       <<"libs/", "~", "foo">>, <<"libs/", "~", "foo", ".scss">>,
       <<"vendor/", "~", "foo">>, <<"vendor/", "~", "foo", ".scss">>,
       <<"libs/", "foo">>, <<"libs/", "foo", ".scss">>,
       <<"vendor/", "foo">>, <<"vendor/", "foo", ".scss">> >>

\* C15: a resolution not answered from the path cache returns the first
\* existing path of the candidate list, which holds the local candidates
\* (the specifier with each extension in order, in the referrer's
\* directory) before every global one and the global ones by prefix, then
\* directory, then extension; it returns nothing exactly when no candidate
\* exists.
C15_Resolve == [](C15_Order) /\ [][C15_FirstCandidate]_vars

\* C15, witness: with libs/foo.scss the only file, ~foo asked from src/ has
\* resolved to it after seven candidates were found missing.
C15_TildeFoo ==
  /\ resolver.fs = {<<"libs/", "foo", ".scss">>}
  /\ ~IsNull(resolver.call)
  /\ Val(resolver.call).filePath = <<"~", "foo">>
  /\ Val(resolver.call).cwd = <<"src/">>
  /\ Val(resolver.call).path = Some(<<"libs/", "foo", ".scss">>)
  /\ Len(Val(resolver.call).tested) = 8

\* ---------------------------------------------------------------------- C17
\* With caching: a call on a key that has a stored path returns it and tests
\* no file; a call on a key without one stores what it found.  A stored path
\* changes only when every entry is removed at once.  Without caching the
\* cache is left alone and every call tests the disk.
C17_CacheStep ==
  /\ Called /\ resolver.caching /\ ~IsNull(resolver.cache[CallKey]) =>
       /\ Val(resolver'.call).path = resolver.cache[CallKey]
       /\ Val(resolver'.call).tested = <<>>
       /\ resolver'.cache = resolver.cache
  /\ Called /\ resolver.caching /\ IsNull(resolver.cache[CallKey]) =>
       resolver'.cache = [resolver.cache EXCEPT ![CallKey] = Val(resolver'.call).path]
  /\ \A k \in RKeys :
       ~IsNull(resolver.cache[k]) =>
         \/ resolver'.cache[k] = resolver.cache[k]
         \/ ~Called /\ resolver'.fs = resolver.fs
              /\ \A j \in RKeys : IsNull(resolver'.cache[j])
  /\ ~resolver.caching =>
       /\ resolver'.cache = resolver.cache
       /\ Called => Val(resolver'.call).tested # <<>>

\* C17: with path caching a successful resolution is stored under its
\* specifier and referring directory and returned by later calls without a
\* test of the disk; a stored path is never changed or removed but by
\* clean(), which removes every entry; with caching disabled the cache is
\* neither read nor written.
C17_PathCache ==
  /\ [][C17_CacheStep]_vars
  /\ [](~resolver.caching => \A k \in RKeys : IsNull(resolver.cache[k]))

\* C17, witness: a call has been answered from the cache with a path whose
\* file had been removed since it was stored.
C17_StaleAnswer ==
  /\ resolver.caching
  /\ ~IsNull(resolver.call)
  /\ Val(resolver.call).tested = <<>>
  /\ Val(Val(resolver.call).path) \notin resolver.fs

\* ---------------------------------------------------------------------- C16
\* The specifiers whose resolution, made by the load of slot i, found no
\* candidate on disk: the root path, or an import of a file the load read.
FoundNothing(s) == IsNull(pathCache[s]) /\ IsNull(_resolveFilePath(disk, s))
UnresolvedBy(i) ==
  {s \in {inputFilePath} : FoundNothing(s)}
    \cup {s \in Specifiers :
            /\ FoundNothing(s)
            /\ \E p \in SeqToSet(task[i].reads) :
                 existsSync(disk, p) /\ Imp(s) \in SeqToSet(Val(disk[p]))}

\* C16, as stated: whenever a resolution a build needs, of the root path or
\* of an import specifier, finds no candidate, the build fails with the
\* unresolved-import error, which carries the complete ordered list of
\* candidates.
C16_UnresolvedCarriesList ==
  \A i \in Tasks :
    task[i].pc = "settling" /\ changed = {} /\ UnresolvedBy(i) # {} =>
      /\ FailedWith(i, "Unresolved")
      /\ \E s \in UnresolvedBy(i) :
           Val(task[i].err).availablePaths = Some(_getAvailableFilePaths(s))

\* The same for import specifiers alone.
C16_ImportCarriesList ==
  \A i \in Tasks :
    task[i].pc = "settling" /\ changed = {} /\ UnresolvedBy(i) \ {inputFilePath} # {}
      /\ ~FoundNothing(inputFilePath) =>
      /\ FailedWith(i, "Unresolved")
      /\ \E s \in UnresolvedBy(i) :
           Val(task[i].err).availablePaths = Some(_getAvailableFilePaths(s))

\* C16: a build whose root path resolved to nothing has failed, with a type
\* error that carries no list.
C16_RootUnresolved ==
  /\ task[1].pc = "settling"
  /\ changed = {}
  /\ FoundNothing(inputFilePath)
  /\ FailedWith(1, "TypeError")
  /\ IsNull(Val(task[1].err).availablePaths)

\* ---------------------------------------------------------------------- C18
\* The import directives in the text of a plain file of the build in slot i.
PlainImports(i) ==
  {tok \in UNION {SeqToSet(Val(Rec(heap, Val(task[i].files[p])).content.css.original)) :
                    p \in {q \in Keys(task[i].files) :
                             Rec(heap, Val(task[i].files[q])).originalFormat = "css"}} :
     IsImp(tok)}

\* Every record of a plain file has the text as read in its plain and nested
\* original slots and an empty nested import list.
C18_PlainSlots ==
  \A id \in RecIds :
    ~IsNull(heap[id]) /\ Rec(heap, id).originalFormat = "css" =>
      /\ ~IsNull(Rec(heap, id).content.css.original)
      /\ Rec(heap, id).content.scss.original = Rec(heap, id).content.css.original
      /\ Rec(heap, id).content.scss.imports = Some(<<>>)

\* C18, as stated: every record of a plain file holds the text as read in
\* its plain and nested original slots and has an empty nested import list,
\* and no build, to the nested or to the indented syntax, inlines or looks
\* up the target of an import directive of a plain file: the build does not
\* fail for want of that target, and its document keeps the directive.
C18_PlainImportsInert ==
  /\ C18_PlainSlots
  /\ \A i \in Tasks :
       task[i].pc = "settling" /\ PlainImports(i) # {} =>
         /\ ~FailedWith(i, "CantFind")
         /\ ~IsNull(task[i].out) => PlainImports(i) \subseteq SeqToSet(Val(task[i].out))

\* C18: a build to the indented syntax has returned a document in which the
\* import directive of c.css is replaced by the text of b.sass.
C18_PlainImportInlined ==
  /\ options.target = "sass"
  /\ task[1].pc = "settling"
  /\ C \in Keys(task[1].files)
  /\ PlainImports(1) = {Imp(B)}
  /\ ~IsNull(task[1].out)
  /\ Imp(B) \notin SeqToSet(Val(task[1].out))

\* C18: a build to the indented syntax has failed because b.sass, imported
\* by c.css alone, is not among its files.
C18_PlainImportMissing ==
  /\ options.target = "sass"
  /\ task[1].pc = "settling"
  /\ PlainImports(1) = {Imp(B)}
  /\ FailedWith(1, "CantFind")

\* ---------------------------------------------------------------------- C19
\* The extension of a path: its last name part.
ExtensionOf(path) == path[Len(path)]

\* The syntax of every record is fixed at its creation.
C19_SyntaxFixed ==
  [][\A id \in RecIds :
       ~IsNull(heap[id]) =>
         /\ ~IsNull(heap'[id])
         /\ Rec(heap', id).originalFormat = Rec(heap, id).originalFormat]_vars

\* C19, as stated: no record is created for a path whose extension is not
\* css, sass or scss, the build that reads such a path failing with the
\* unknown-syntax error; the native syntax of a record is the syntax of its
\* path's extension, and the record holds text in its native slot.
C19_KnownExtensionsOnly ==
  /\ \A id \in RecIds :
       ~IsNull(heap[id]) =>
         /\ ExtensionOf(Rec(heap, id).path) \in Formats
         /\ Rec(heap, id).originalFormat = ExtensionOf(Rec(heap, id).path)
         /\ hasUnprocessedContent(Rec(heap, id), Rec(heap, id).originalFormat)
  /\ \A i \in Tasks :
       task[i].pc = "settling" /\
       (\E p \in SeqToSet(task[i].reads) :
          existsSync(disk, p) /\ ExtensionOf(p) \notin Formats)
         => FailedWith(i, "UnknownSyntax")

\* C19: a build has read d.css.map, made a plain-syntax record of it and
\* returned a document.
C19_MapFileAccepted ==
  /\ task[1].pc = "settling"
  /\ D \in Keys(task[1].files)
  /\ Rec(heap, Val(task[1].files[D])).originalFormat = "css"
  /\ ~IsNull(task[1].out)

\* ---------------------------------------------------------------------- C20
\* The step starts _build in slot i.
Started(i) ==
  Free(i) /\ task'[i] # task[i] /\ task'[i].pc \in {"loaded", "settling"}

\* With resolveUrl a manifest path: a _build that finds the manifest readable
\* holds its mapping when it goes on to the stylesheets; one that does not
\* fails with the manifest error, having read no stylesheet, touched no
\* record or cache entry and taken no build marker, and the mapping loaded
\* before stays.  Otherwise the manifest is not read: the mapping is left as
\* it is and no build fails on the manifest.
C20_Start(i) ==
  Started(i) =>
    /\ options.manifest /\ manifestOk =>
         urls' = Some(mapping) /\ task'[i].err # Some(Error("Manifest"))
    /\ options.manifest /\ ~manifestOk =>
         /\ task'[i].err = Some(Error("Manifest"))
         /\ task'[i].reads = <<>>
         /\ task'[i].visited = {}
         /\ UNCHANGED <<heap, cache, pathCache, clock, urls>>
    /\ ~options.manifest =>
         urls' = urls /\ task'[i].err # Some(Error("Manifest"))

\* C20: with resolveUrl a manifest path every build, and so every run of the
\* watcher, reads the manifest again before it reads any stylesheet; when
\* that fails the build fails with the manifest error before any record is
\* read, created or replaced and the mapping loaded before is unchanged;
\* with a literal mapping or a function no manifest is read.
C20_ManifestFirst ==
  /\ [][(\A i \in Tasks : C20_Start(i))
         /\ (urls' # urls => \E i \in Tasks : Started(i))]_vars
  /\ [](~options.manifest => IsNull(urls))

\* C20, witness: a run of the watcher has failed on the manifest, rewritten
\* and then broken since the first run loaded it; the builder still holds
\* the first mapping.
C20_FailedRunKeepsMapping ==
  /\ task[1].pc = "settling"
  /\ task[1].kind = "run"
  /\ FailedWith(1, "Manifest")
  /\ urls = Some(1)
  /\ mapping = 2
  /\ clock >= 1

\* ---------------------------------------------------------------------- C21
\* The pieces of content kept by a rule that tells, for each position,
\* whether the declaration there is deleted.
KeptPieces(content, Deleted(_)) ==
  LET F[k \in 0..Len(content)] ==
        IF k = 0 THEN <<>>
        ELSE IF IsDeclaration(content[k]) /\ Deleted(k) THEN F[k - 1]
             ELSE Append(F[k - 1], content[k])
  IN  F[Len(content)]

\* Some earlier block has the same kind, name and text.
SameAsAnEarlier(content, k) == \E j \in 1..(k - 1) : content[j] = content[k]

\* The latest earlier block of the same kind and name has the same text.
SameAsTheLatest(content, k) ==
  LET same == {j \in 1..(k - 1) : /\ IsDeclaration(content[j])
                                   /\ content[j][2] = content[k][2]
                                   /\ content[j][3] = content[k][3]}
  IN  same # {} /\ content[CHOOSE j \in same : \A i \in same : i <= j] = content[k]

WithoutLaterDefaults(statements) ==
  LET later(k) == /\ statements[k].kind = "default"
                  /\ \E j \in 1..(k - 1) : /\ statements[j].kind = "default"
                                            /\ statements[j].name = statements[k].name
  IN  Flatten([k \in 1..Len(statements) |->
                 IF ~later(k) THEN statements[k].tokens
                 ELSE IF statements[k].end = "}" THEN << <<"}", "">> >> ELSE <<>>])

\* C22, as stated: the pass keeps the first !default assignment of each name
\* and deletes every later one, whatever its value or nesting; assignments
\* without !default and all other text are unchanged; the pass applied to
\* its own result changes nothing.
C22_FirstDefaultOnly ==
  filter.pass = "variables" /\ ~IsNull(filter.output) =>
    /\ Val(filter.output) = WithoutLaterDefaults(filter.input)
    /\ removeRedundantVariables(Val(filter.output), filter.format) = Val(filter.output)

\* The same for texts in which a semicolon ends every assignment.
C22_WithSemicolons ==
  filter.pass = "variables" /\ ~IsNull(filter.output)
    /\ (\A k \in 1..Len(filter.input) :
          filter.input[k].kind # "other" => filter.input[k].end = ";") =>
    /\ Val(filter.output) = WithoutLaterDefaults(filter.input)
    /\ removeRedundantVariables(Val(filter.output), filter.format) = Val(filter.output)

\* The pass applied to its own result changes nothing.
C22_Idempotent ==
  filter.pass = "variables" /\ ~IsNull(filter.output) =>
    removeRedundantVariables(Val(filter.output), filter.format) = Val(filter.output)

\* C22: of $a: 1 !default; and a later $a: 2 !default that ends its block,
\* the pass has returned the first assignment alone: the closing brace of
\* the block is gone.
C22_BraceDeleted ==
  /\ filter.pass = "variables"
  /\ TokensOf(filter.input) =
        DefaultAssignment("a", "1", ";") \o DefaultAssignment("a", "2", "}")
  /\ filter.output = Some(DefaultAssignment("a", "1", ";"))

\* ---------------------------------------------------------------------- C23
\* The path of an address is what precedes its query string and fragment,
\* the rest is everything from the first "?" or "#" on.
PathOf(address) ==
  LET at == {i \in 1..Len(address) : address[i] \in {"?", "#"}}
  IN  IF at = {} THEN address ELSE SubSeq(address, 1, Min(at) - 1)
RestOf(address) == SubSeq(address, Len(PathOf(address)) + 1, Len(address))
IsExternal(address) == address[1] \in {"http://", "//"}
TargetOf(address) ==
  IF address[1] = "/" THEN PathOf(address) ELSE StylesheetDir \o PathOf(address)

C23_Rewritten(in, out) ==
  IF IsExternal(in.clause.url) \/ (in.clause.url[1] = "/" /\ ~in.startingWithSlash)
  THEN out = in.clause
  ELSE out.url = (IF TargetOf(in.clause.url) \in in.keys
                  THEN <<PublicPath, "hashed.png">>
                  ELSE PathOf(in.clause.url)) \o RestOf(in.clause.url)

\* C23, as stated: with a mapping or a manifest, an external address and,
\* unless resolveUrlsStartingWithSlash is set, an address starting with "/"
\* are unchanged; an address whose absolute target is a key of the mapping
\* becomes publicPath + mapped value, any other keeps its path; the query
\* string and the fragment are preserved.
C23_UrlRewriting ==
  filter.pass = "urls" /\ ~IsNull(filter.output) =>
    C23_Rewritten(filter.input, Val(filter.output))

\* The same where no file of the address's name exists in the working
\* directory of the process or in a global directory, and the address has
\* at most one query string and one fragment, neither empty.
C23_PlainAddresses ==
  filter.pass = "urls" /\ ~IsNull(filter.output) /\ filter.input.fs = {}
    /\ RestOf(filter.input.clause.url) \in
          {<<>>, <<"?", "v">>, <<"#", "h">>, <<"?", "v", "#", "h">>} =>
    C23_Rewritten(filter.input, Val(filter.output))

\* C23: url('img.png?#h') has been rewritten to url("img.png#h").
C23_EmptyQueryDropped ==
  /\ filter.pass = "urls"
  /\ filter.input.clause.url = <<"img.png", "?", "#", "h">>
  /\ filter.input.keys = {}
  /\ ~IsNull(filter.output)
  /\ Val(filter.output).url = <<"img.png", "#", "h">>

\* C23: img.png next to the stylesheet has an entry in the mapping, a file
\* img.png exists in the working directory of the process, and the address
\* has been left as img.png.
C23_ResolvedElsewhere ==
  /\ filter.pass = "urls"
  /\ filter.input.clause.url = <<"img.png">>
  /\ filter.input.keys = {StylesheetDir \o <<"img.png">>}
  /\ filter.input.fs = {ProcessCwd \o <<"img.png">>}
  /\ ~IsNull(filter.output)
  /\ Val(filter.output).url = <<"img.png">>

\* ------------------------------------------------- the watcher, stopped
\* watcher.stop(): the filesystem watcher is closed, which ends every watch
\* it holds; previouslyWatched is left as it is.  Called while no run is in
\* flight.
watcherStop ==
  /\ \A j \in Tasks : ~InFlight(j)
  /\ watched # {}
  /\ watched' = {}
  /\ isWatchingOnManifestFile' = FALSE
  /\ UNCHANGED <<resolver, filter, mapping, urls>>
  /\ UNCHANGED <<disk, manifestOk, options, heap, cache, pathCache, clock, progress,
                 task, previouslyWatched, pending, edits, changed, last>>

\* The program calls watcher.run() again after it has stopped the watcher.
RunAfterStop(i) ==
  /\ \A j \in Tasks : ~InFlight(j)
  /\ \E j \in Tasks : task[j].pc = "done"
  /\ watched = {}
  /\ runStart(i)
  /\ UNCHANGED pending

StopInit == CleanInit

StopNext ==
  \/ RunCall(1)
  \/ RunEvent(1)
  \/ Prepare(1)
  \/ ConvertDone(1)
  \/ ConvertFailed(1)
  \/ Assemble(1)
  \/ RunReady(1)
  \/ RunReadyThrows(1)
  \/ RunError(1)
  \/ (Free(1) /\ \E p \in Paths : EditFile(p))
  \/ watcherStop
  \/ RunAfterStop(1)

SpecStop == StopInit /\ [][StopNext]_vars

\* ---------------------------------------------------------------------- C24
\* C24, as stated: watcher.clean() discards the cache of resolved paths and
\* the cache of File Records.
C24_CleanDiscardsBoth ==
  [][watcherClean => /\ cache' = NoFiles
                     /\ pathCache' = [s \in Specifiers |-> Null]]_vars

\* What watcher.clean() does: it discards the File Records and leaves the
\* cache of resolved paths as it is, and the next run creates a record for
\* every file it loads.
C24_CleanDiscardsRecords ==
  /\ [][watcherClean => cache' = NoFiles /\ pathCache' = pathCache]_vars
  /\ [][cache = NoFiles =>
         \A i \in Tasks : \/ Keys(task'[i].files) \subseteq task'[i].created
                          \/ task'[i] = task[i]]_vars

\* C24: a run made after clean() has failed reading b.scss, which is gone
\* from disk: it took the path from the cache of resolved paths.  Every
\* record of the cache is of this run, and the heap still holds those of
\* the run before clean().
C24_StalePathAfterClean ==
  \E i \in Tasks :
    /\ task[i].kind = "run"
    /\ ~IsNull(task[i].err)
    /\ Val(task[i].err).kind = "Read"
    /\ IsNull(disk[B])
    /\ cache # NoFiles
    /\ \A p \in Keys(cache) : Val(cache[p])[2] = task[i].buildTime
    /\ \E id \in RecIds : ~IsNull(heap[id]) /\ id[2] < task[i].buildTime

\* ---------------------------------------------------------------------- C25
\* _build(cache) with an empty cache object on the disk d, the converter
\* answering: the document, or Null when the build fails.
EmptyCacheBuild(d, pc, target) ==
  Let(loadAllFiles(d, NoRecs, NoFiles, pc, 1), LAMBDA ld :
    IF ~IsNull(ld.err) THEN Null
    ELSE Let(storeConverted(ld.h, ld.files, convertable(ld.h, ld.files, target),
                            target, 1), LAMBDA h :
           buildFinalFile([h |-> h, built |-> {}], target,
                          Val(ld.files[inputFilePath]), ld.files, 1, <<>>).out))

\* C25: every build that succeeds returns the document that a build with
\* an empty cache returns on the same disk with the same options.
C25_Transparent ==
  \A i \in Tasks :
    task[i].pc = "settling" /\ IsNull(task[i].err) =>
      task[i].out = EmptyCacheBuild(disk, pathCache, options.target)

\* C25: a build has returned a document that holds the text b.sass had
\* before its last edit.
C25_StaleFinal ==
  \E i \in Tasks :
    /\ task[i].pc = "settling"
    /\ IsNull(task[i].err)
    /\ ~IsNull(disk[B])
    /\ \E k \in 1..Len(Val(task[i].out)), v \in Versions :
         /\ Val(task[i].out)[k] = Txt(B, v, options.target)
         /\ Txt(B, v, determineFileFormat(B)) \notin SeqToSet(Val(disk[B]))

ReadyAndLater(j, i) ==
  /\ task[j].kind = "run"
  /\ task[j].pc = "done"
  /\ IsNull(task[j].err)
  /\ task[j].buildTime > task[i].buildTime

\* C27, as stated: a run never emits 'ready' with a stylesheet other than
\* that of a run started after it which has emitted 'ready' already, and
\* the files it leaves watched are those of that later run.
C27_LatestReadyLast ==
  [][\A i \in Tasks :
       task[i].kind = "run" /\ task[i].pc = "settling" /\ IsNull(task[i].err)
         /\ task'[i].pc = "done" =>
       \A j \in Tasks \ {i} :
         ReadyAndLater(j, i) =>
           /\ task[i].out = task[j].out
           /\ previouslyWatched' = Keys(task[j].files)]_vars

\* C27: two runs have overlapped and both have emitted 'ready'; the one
\* started first, which read the disk before an edit, emitted last, so the
\* last 'ready' carries the older stylesheet, while the other run returned
\* what a build of the disk as it is returns.
C27_OlderReadyLast ==
  \E i, j \in Tasks :
    /\ ReadyAndLater(j, i)
    /\ task[i].kind = "run"
    /\ task[i].pc = "done"
    /\ IsNull(task[i].err)
    /\ task[i].overlap
    /\ task[i].out # task[j].out
    /\ last.out = task[i].out
    /\ last.disk = disk
    /\ task[j].out = EmptyCacheBuild(disk, pathCache, options.target)

\* ---------------------------------------------------------------------- C28
\* The original and final slots of a record.
SlotsOf(rec) ==
  [f \in {"css", "scss", "sass"} |-> <<rec.content[f].original, rec.content[f].final>>]

\* No step lowers the marker of a record.
MarkerNeverLower ==
  \A id \in RecIds :
    ~IsNull(heap[id]) /\ ~IsNull(heap'[id]) =>
      Rec(heap', id).buildTime >= Rec(heap, id).buildTime

\* A step that creates a record or changes a slot of one is the step of a
\* build, and leaves the record with that build's marker.
MarkerOfWriter ==
  \A id \in RecIds :
    ~IsNull(heap'[id])
      /\ (IsNull(heap[id]) \/ SlotsOf(Rec(heap', id)) # SlotsOf(Rec(heap, id))) =>
      \E i \in Tasks :
        task'[i] # task[i] /\ Rec(heap', id).buildTime = task'[i].buildTime

\* C28, as stated: the marker of a record never decreases, and every write
\* of an original or final slot sets it to the marker of the writing build.
C28_Monotonic == [][MarkerNeverLower /\ MarkerOfWriter]_vars

\* Every write sets the marker of the writing build.
C28_WriterStamps == [][MarkerOfWriter]_vars

\* C28: a run has assembled the final text of a record, which set the
\* record's marker to that run's, and the record now carries the marker of
\* a run started before it.
C28_MarkerLowered ==
  \E j \in Tasks : \E p \in task[j].built :
    /\ task[j].kind = "run"
    /\ ~IsNull(task[j].files[p])
    /\ Rec(heap, Val(task[j].files[p])).buildTime < task[j].buildTime

\* ---------------------------------------------------------------------- C29
\* Whether piece k of a text is an import directive: in the indented syntax
\* a directive stands at the start of a line.
IsDirective(pieces, k, format) ==
  /\ pieces[k].kind = "import"
  /\ \/ format = "scss"
     \/ pieces[k].lead # <<>>
     \/ k = 1
     \/ pieces[k - 1].kind = "import"

\* The text in which every directive, with the character that ends its
\* statement, is replaced by the final text of its target and a line break,
\* the final text indented as the directive was in the indented syntax; a
\* closing brace after the directive is not part of it.
Spliced(pieces, format) ==
  Flatten([k \in 1..Len(pieces) |->
    IF ~IsDirective(pieces, k, format) THEN pieces[k].tokens
    ELSE pieces[k].lead
           \o indentedContent(FinalOf(pieces[k].target),
                               IF format = "scss" THEN <<>>
                               ELSE SelectSeq(pieces[k].lead, LAMBDA u : u = " "))
           \o (IF pieces[k].end = "}" THEN <<"}">> ELSE <<>>)])

\* A text without its empty lines.
RECURSIVE Squeeze(_)
Squeeze(text) ==
  IF Len(text) < 2 THEN text
  ELSE IF text[1] = "\n" /\ text[2] = "\n" THEN Squeeze(Tail(text))
  ELSE <<Head(text)>> \o Squeeze(Tail(text))

\* C29, as stated: the assembled text is the original in which the span of
\* each import directive is replaced by the final text of its target and a
\* line break, everything outside the spans unchanged and in order, and no
\* part of a directive is left.
C29_SpansReplaced ==
  filter.pass = "splice" /\ ~IsNull(filter.output) =>
    Squeeze(Val(filter.output)) = Squeeze(Spliced(filter.input, filter.format))

\* The same for the nested syntax where a semicolon ends every directive,
\* and for the indented syntax where every directive is the first line of
\* the text or follows another directive.
C29_PlainDirectives ==
  filter.pass = "splice" /\ ~IsNull(filter.output)
    /\ (\A k \in 1..Len(filter.input) :
          filter.input[k].kind = "import" =>
            IF filter.format = "scss" THEN filter.input[k].end = ";"
            ELSE filter.input[k].lead = <<>>
                   /\ (k = 1 \/ filter.input[k - 1].kind = "import")) =>
    Squeeze(Val(filter.output)) = Squeeze(Spliced(filter.input, filter.format))

\* C29: in the indented syntax, of a line of text followed by the line
\* @import "b" the assembly has left the "@" of the directive in front of
\* the text of b.
C29_StrayAt ==
  /\ filter.pass = "splice"
  /\ filter.format = "sass"
  /\ TokensOf(filter.input) = <<"x", "\n", "@", "import b", "\n">>
  /\ filter.output = Some(<<"x", "\n", "@", "b1", "\n", "b2", "\n">>)

\* C29: in the nested syntax, of x @import "b" } the assembly has left x and
\* the text of b: the closing brace is gone.
C29_BraceReplaced ==
  /\ filter.pass = "splice"
  /\ filter.format = "scss"
  /\ TokensOf(filter.input) = <<"x", "@", "import b", "}">>
  /\ filter.output = Some(<<"x", "b1", "\n", "b2", "\n">>)

\* ---------------------------------------------------------------------- C30
\* The phases of a build, by the place its slot is at, and the moves from one
\* place to the next.
PhaseMoves ==
  {<<"idle", "loaded">>, <<"idle", "settling">>,
   <<"done", "loaded">>, <<"done", "settling">>,
   <<"loaded", "converting">>, <<"loaded", "converted">>,
   <<"converting", "converted">>, <<"converting", "settling">>,
   <<"converted", "settling">>, <<"settling", "done">>}

\* The loader of slot i has read and registered every file that can be
\* reached: each path of the files map was read in this build and has a
\* record, and each path a nested or indented record imports is in the map.
LoadComplete(i) ==
  /\ IsNull(task[i].err)
  /\ inputFilePath \in Keys(task[i].files)
  /\ \A p \in Keys(task[i].files) :
       /\ ~IsNull(heap[Val(task[i].files[p])])
       /\ p \in SeqToSet(task[i].reads)
       /\ LET rec == Rec(heap, Val(task[i].files[p]))
              text == Val(getUnprocessedContent(rec, rec.originalFormat))
          IN  rec.originalFormat # "css" =>
                \A k \in 1..Len(text) :
                  IsImp(text[k]) => text[k][2] \in Keys(task[i].files)

\* Every record of the build of slot i has its text in the target syntax.
ConversionComplete(i) ==
  /\ IsNull(task[i].err)
  /\ \A p \in Keys(task[i].files) :
       hasUnprocessedContent(Rec(heap, Val(task[i].files[p])), options.target)

\* A step in which the converter of slot i selects its files or is called.
ConverterActs(i) ==
  \/ task'[i].conv > task[i].conv
  \/ task'[i].sent # task[i].sent /\ task'[i].sent # {}
  \/ task[i].pc = "loaded" /\ task'[i].pc # "loaded"

\* A step in which the assembler of slot i runs.
AssemblerActs(i) ==
  \/ task'[i].built # task[i].built /\ task'[i].built # {}
  \/ task'[i].out # task[i].out /\ ~IsNull(task'[i].out)
  \/ task[i].pc = "converted" /\ task'[i].pc # "converted"

PhaseStep(i) ==
  /\ task'[i].pc # task[i].pc => <<task[i].pc, task'[i].pc>> \in PhaseMoves
  /\ ConverterActs(i) => task[i].pc = "loaded" /\ LoadComplete(i)
  /\ AssemblerActs(i) => task[i].pc = "converted" /\ ConversionComplete(i)

\* A build whose loader or converter failed has assembled nothing.
FailedNeverAssembled ==
  \A i \in Tasks :
    ~IsNull(task[i].err)
      /\ Val(task[i].err).kind \in {"Manifest", "TypeError", "Unresolved", "Read",
                                      "UnknownSyntax", "Conversion"} =>
      task[i].built = {} /\ IsNull(task[i].out)

RecordCall(op, f) ==
  /\ filter'.pass = "record"
  /\ ~IsNull(filter'.output)
  /\ Val(filter'.output).op = op
  /\ filter'.format = f

\* A write of the nested or indented original leaves that variant without
\* final text and with no import list, and the other variants as they were.
WriteResets(f) ==
  RecordCall("setUnprocessedContent", f) =>
    /\ ~IsNull(filter'.input.content[f].original)
    /\ IsNull(filter'.input.content[f].final)
    /\ IsNull(filter'.input.content[f].imports)
    /\ \A g \in Formats \ {f} :
         filter'.input.content[g] = filter.input.content[g]

\* The original of variant f is written by the step: by a write of f, or,
\* for the nested variant, by a write of the plain one.
OriginalWritten(f) ==
  \/ RecordCall("setUnprocessedContent", f)
  \/ f = "scss" /\ RecordCall("setUnprocessedContent", "css")

\* A list computed for variant f stays, and is what a request returns, in
\* every step that does not write the original of f.
ListKept(f) ==
  ~IsNull(filter.input.content[f].imports) /\ ~OriginalWritten(f) =>
    /\ filter'.input.content[f].imports = filter.input.content[f].imports
    /\ RecordCall("getImports", f) =>
         Val(filter'.output).imports = Val(filter.input.content[f].imports)

\* C31: writing the original of the nested or indented variant of a File
\* Record resets that variant's final text to absent and its import list to
\* uncomputed and leaves the slots of the other variants unchanged; a list
\* once computed for a variant is returned unchanged by every later request
\* until that original is written again.
C31_SlotInvalidation ==
  [][/\ \A f \in {"scss", "sass"} : WriteResets(f)
     /\ \A f \in Formats : ListKept(f)]_vars

\* C31, witness: the nested original of a record has just been written; the
\* nested list and the nested final are gone, the indented final and the
\* indented list are kept.
C31_RewrittenAfterList ==
  /\ filter.pass = "record"
  /\ filter.format = "scss"
  /\ filter.output = Some([op |-> "setUnprocessedContent", imports |-> <<>>])
  /\ filter.input.path = R
  /\ filter.input.content["scss"].original = Some(<<Txt(R, 1, "")>>)
  /\ IsNull(filter.input.content["scss"].imports)
  /\ IsNull(filter.input.content["scss"].final)
  /\ ~IsNull(filter.input.content["sass"].final)
  /\ ~IsNull(filter.input.content["sass"].imports)

\* ---------------------------------------------------------------------- C32
\* C32, as stated: with a converter that returns its input unchanged, the
\* split stores for every selected file exactly its own text, for any set of
\* selected files, also when a text is empty or has several lines, so that
\* afterwards every selected record has a text in the target syntax.
C32_RoundTrip ==
  filter.pass = "batch" /\ ~IsNull(filter.output) =>
    \A p \in DOMAIN filter.input : Val(filter.output)[p] = Some(filter.input[p])

\* The same where no selected file is empty.
C32_NonEmptyTexts ==
  filter.pass = "batch" /\ ~IsNull(filter.output)
    /\ (\A p \in DOMAIN filter.input : filter.input[p] # <<>>) =>
    \A p \in DOMAIN filter.input : Val(filter.output)[p] = Some(filter.input[p])

\* C32: of the empty file e and the file f the split has stored, for e, the
\* rest of its own part, the opening comment of f and the text of f, and
\* nothing for f.
C32_EmptyTakesNext ==
  /\ filter.pass = "batch"
  /\ filter.input = [p \in {"e", "f"} |-> IF p = "e" THEN <<>> ELSE <<"x">>]
  /\ ~IsNull(filter.output)
  /\ Val(filter.output)["e"] = Some(<<"\n", "E", "\n", "\n", "B:f", "\n", "x">>)
  /\ IsNull(Val(filter.output)["f"])

\* C32: of the empty file e alone the split has stored nothing.
C32_EmptyAloneUnstored ==
  /\ filter.pass = "batch"
  /\ filter.input = [p \in {"e"} |-> <<>>]
  /\ ~IsNull(filter.output)
  /\ IsNull(Val(filter.output)["e"])

\* ---------------------------------------------------------------------- C33
\* The paths named by the import list, in syntax format, of a record.
ListedTargets(rec, format) ==
  {getImports(rec, format).imports[k].filePath :
     k \in 1..Len(getImports(rec, format).imports)}

\* Every path named by a target-syntax import list of a record of the build
\* in slot i is a key of the files map of that build.
TargetListsLoaded(i) ==
  \A p \in Keys(task[i].files) :
    ListedTargets(Rec(heap, Val(task[i].files[p])), options.target)
      \subseteq Keys(task[i].files)

AssemblyStarts(i) == task[i].pc = "converted" /\ task'[i].pc = "settling"

\* C33, as stated: when the assembler starts, every import target named in
\* a target-syntax import list is a key of the files map, and no build fails
\* because a target is not in the map, for either target syntax and also
\* with plain files that hold import directives.
C33_TargetsLoaded ==
  /\ [](\A i \in Tasks : ~FailedWith(i, "CantFind"))
  /\ [][\A i \in Tasks : AssemblyStarts(i) => TargetListsLoaded(i)]_vars

\* The same for builds to the nested syntax, and for builds to the indented
\* syntax in which no plain file holds an import directive.
C33_NativeListsLoaded ==
  /\ [](\A i \in Tasks :
          options.target = "scss" \/ PlainImports(i) = {} => ~FailedWith(i, "CantFind"))
  /\ [][\A i \in Tasks :
          AssemblyStarts(i) /\ (options.target = "scss" \/ PlainImports(i) = {}) =>
            TargetListsLoaded(i)]_vars

\* C33: a build to the indented syntax has failed in the assembler: the
\* indented import list of c.css names b.sass, which the loader, following
\* the empty plain list of c.css, has not loaded.
C33_ListedButNotLoaded ==
  /\ options.target = "sass"
  /\ task[1].pc = "settling"
  /\ FailedWith(1, "CantFind")
  /\ C \in Keys(task[1].files)
  /\ B \notin Keys(task[1].files)
  /\ B \in ListedTargets(Rec(heap, Val(task[1].files[C])), "sass")
  /\ ListedTargets(Rec(heap, Val(task[1].files[C])), "css") = {}

\* ---------------------------------------------------------------------- C34
\* The step in which the call of the converter of slot i fails.
ConversionFails(i) == task[i].pc = "converting" /\ task'[i].pc = "settling"

\* The failed call leaves every record as it was, and the error is the
\* converter's with the paths of the files map attached.
FailureChangesNothing(i) ==
  ConversionFails(i) =>
    /\ heap' = heap
    /\ task'[i].err = Some([Error("Conversion") EXCEPT
                              !.files = Some(Keys(task[i].files))])
    /\ convertable(heap', task'[i].files, options.target) = task[i].sent

\* The build settled last has failed in the converter: it had loaded its
\* files and left records without a text in the target syntax.
LastFailedInConverter ==
  /\ ~last.ok
  /\ last.files # NoFiles
  /\ convertable(last.heap, last.files, options.target) # {}

\* The build after one that failed in the converter, the files unchanged
\* since, sends the files the failed one had selected.
SelectedAgain(i) ==
  task[i].pc = "loaded" /\ task'[i].pc # "loaded"
    /\ LastFailedInConverter /\ disk = last.disk =>
      /\ task'[i].pc = "converting"
      /\ task'[i].sent = convertable(last.heap, last.files, options.target)

\* The error is handed to the caller as the build left it.
ErrorHandedOn(i) ==
  task[i].pc = "settling" /\ task'[i].pc = "done" => task'[i].err = task[i].err

\* C34: a failed call of the converter changes the original, final, import
\* list and marker of no record, its error reaches the caller with nothing
\* but the file set attached, and the next build with the same cache and
\* unchanged files selects the same files for conversion.
C34_FailedConversion ==
  [][\A i \in Tasks :
       FailureChangesNothing(i) /\ SelectedAgain(i) /\ ErrorHandedOn(i)]_vars

\* C34, witness: the second build, after a first that failed in the
\* converter and with the files unchanged, is waiting for the converter on
\* the same files.
C34_SentAgain ==
  /\ task[1].pc = "converting"
  /\ task[1].buildTime = 2
  /\ LastFailedInConverter
  /\ disk = last.disk
  /\ task[1].sent = convertable(last.heap, last.files, options.target)
  /\ Cardinality(task[1].sent) >= 2

\* ---------------------------------------------------------------------- C35
\* The step in which the catch branch of the run in slot i has run.
RunFails(i) ==
  task[i].pc = "settling" /\ task[i].kind = "run" /\ task'[i].pc = "done"
    /\ ~IsNull(task[i].err)

\* The paths the error of slot i carries: the candidates of an unresolved
\* import and the attached files.
Carried(i) ==
  (IF IsNull(Val(task[i].err).availablePaths) THEN {}
   ELSE SeqToSet(Val(Val(task[i].err).availablePaths)))
    \cup (IF IsNull(Val(task[i].err).files) THEN {} ELSE Val(Val(task[i].err).files))

\* C35, as stated: after a failed run the watch set holds every path it held
\* before, the candidate paths the error carries and the files attached to
\* the error.
C35_FailedRunWatches ==
  [][\A i \in Tasks :
       RunFails(i) => watched \subseteq watched' /\ Carried(i) \subseteq watched']_vars

\* A failed run removes no path from the watch set.
C35_FailedRunRemovesNone ==
  [][\A i \in Tasks : RunFails(i) => watched \subseteq watched']_vars

\* C35: a run started after stop() has failed with files attached to its
\* error, and none of them is watched.
C35_AttachedUnwatched ==
  /\ task[1].pc = "done"
  /\ task[1].kind = "run"
  /\ ~IsNull(task[1].err)
  /\ ~IsNull(Val(task[1].err).files)
  /\ Val(Val(task[1].err).files) # {}
  /\ Val(Val(task[1].err).files) \cap watched = {}
  /\ Val(Val(task[1].err).files) \subseteq previouslyWatched

\* ---------------------------------------------------------------------- C36
\* The stylesheet paths registered with the filesystem watcher.
WatchedStylesheets == watched \ {Manifest}

\* C36, as stated: previouslyWatched is the set of stylesheet paths
\* registered with the filesystem watcher, after successful runs, after
\* failed runs and after stop() followed by run().
C36_RecordIsWatchSet == previouslyWatched = WatchedStylesheets

\* C36: a run started after stop() has succeeded and watches none of the
\* files of its graph, all of which previouslyWatched holds.
C36_GraphUnwatched ==
  /\ task[1].pc = "done"
  /\ task[1].kind = "run"
  /\ IsNull(task[1].err)
  /\ task[1].buildTime >= 2
  /\ Keys(task[1].files) # {}
  /\ previouslyWatched = Keys(task[1].files)
  /\ watched = {}

\* ---------------------------------------------------------------------- C37
\* The step in which the build of slot i starts and loads its files.
LoadStep(i) == clock' = clock + 1 /\ task'[i].buildTime = clock'

\* The load of slot i has failed for want of an import's file.
LoadUnresolved(i) ==
  /\ LoadStep(i)
  /\ ~IsNull(task'[i].err)
  /\ Val(task'[i].err).kind = "Unresolved"

\* C37: with path caching enabled a failed resolution is not remembered: a
\* build fails for an unresolved import only when none of the import's
\* candidate files exists at that time, so that the build after the creation
\* of a candidate resolves the import, with no clean() in between.
C37_FailureNotMemoized ==
  [][\A i \in Tasks :
       LoadUnresolved(i) =>
         /\ ~IsNull(Val(task'[i].err).availablePaths)
         /\ \A q \in SeqToSet(Val(Val(task'[i].err).availablePaths)) :
              ~existsSync(disk, q)]_vars

\* C37, witness: the first build failed while b.sass, imported by the root,
\* did not exist; b.sass was created, and the second build has loaded it.
C37_ResolvedAfterCreation ==
  /\ cacheFilePaths
  /\ ~last.ok
  /\ IsNull(last.disk[B])
  /\ last.files = NoFiles
  /\ task[1].buildTime = 2
  /\ task[1].pc = "loaded"
  /\ B \in Keys(task[1].files)
  /\ pathCache[B] = Some(B)

\* The same on the resolver with prefixes and directories: a call that
\* answers null, or that finds no entry for its key, answers what the search
\* finds on the files that exist now.
C37_NullAnswerIsCurrent ==
  [][~IsNull(resolver'.call) =>
       LET c == Val(resolver'.call)
           now == resolveFilePathIn(resolver.fs, c.filePath, c.cwd).path
       IN  /\ IsNull(c.path) => IsNull(now)
           /\ IsNull(resolver.cache[<<c.filePath, c.cwd>>]) => c.path = now]_vars

\* ---------------------------------------------------------------------- C38
\* What a search of the files that exist now answers for the key called.
AnswerNow ==
  FirstExisting(getAvailableFilePathsIn(CallKey[1], CallKey[2]), resolver.fs)

\* The path stored for the key called names a file that still exists, and
\* no candidate listed before it exists.
StoredIsCurrent ==
  LET cands == getAvailableFilePathsIn(CallKey[1], CallKey[2])
      stored == Val(resolver.cache[CallKey])
  IN  /\ stored \in resolver.fs
      /\ ~\E j \in 1..Len(cands) :
            cands[j] \in resolver.fs /\ \A k \in 1..j : cands[k] # stored

\* C38, as stated: with path caching and no clean(), every call answers
\* what an uncached call would answer on the files that exist now, whatever
\* files were created or removed between the calls.
C38_SameAsUncached ==
  [][Called /\ resolver.caching => Val(resolver'.call).path = AnswerNow]_vars

\* C38, amended: with path caching, a call on a key that holds no path
\* answers what an uncached call would answer now; a call on a key that
\* holds a path answers that path, which is the uncached answer exactly
\* when the stored file still exists and no candidate of higher priority
\* has been created since.
C38_SameUnlessStale ==
  [][Called /\ resolver.caching =>
       Let(AnswerNow, LAMBDA now :
         IF IsNull(resolver.cache[CallKey])
         THEN Val(resolver'.call).path = now
         ELSE /\ Val(resolver'.call).path = resolver.cache[CallKey]
              /\ (Val(resolver'.call).path = now) <=> StoredIsCurrent)]_vars

\* C38, witness: a call has been answered from the cache with a path that
\* still exists, while a candidate of higher priority, created after the
\* path was stored, exists as well.
C38_HigherPriorityIgnored ==
  /\ resolver.caching
  /\ ~IsNull(resolver.call)
  /\ Val(resolver.call).tested = <<>>
  /\ ~IsNull(Val(resolver.call).path)
  /\ Val(Val(resolver.call).path) \in resolver.fs
  /\ FirstExisting(getAvailableFilePathsIn(Val(resolver.call).filePath,
                                           Val(resolver.call).cwd), resolver.fs)
       # Val(resolver.call).path

\* ---------------------------------------------------------------------- C39
\* The syntax the converter is told its input is in.
FromFormat == IF options.target = "scss" THEN "sass" ELSE "scss"

\* The records the build of slot i has sent to the converter.
SentRecords(i) == {Rec(heap, Val(task[i].files[p])) : p \in task[i].sent}

====
